---- MODULE Spec2Model ----
(***************************************************************************)
(* tidbits-memory: the MemoryStore (store.py) over the InMemoryAdapter     *)
(* (adapters/memory.py), with the Memory / VoteRecord entities (models.py).*)
(*                                                                         *)
(* Spec      one caller at a time: every Store method runs to completion.  *)
(* SpecConc  several callers on one adapter: a vote / unvote is an adapter *)
(*           read followed, in a later step, by an adapter write.          *)
(***************************************************************************)
EXTENDS Integers, Sequences, FiniteSets, TLC

\* ------------------------------------------------------------------ bounds
MaxClock  == 60     \* last clock reading, in seconds
TickStep  == 30     \* seconds that pass in one Tick
MaxWrites == 3      \* adapter writes (save, effective delete) in one run
MaxCalls  == 3      \* JsonFileAdapter calls started in one run
MaxFairCalls == 2   \* JsonFileAdapter calls started in one run under the fair scheduler
MaxStored == 3      \* memories stored when list_memories and get_memories are called
MaxLines  == 3      \* lines of stdin that cmd_serve reads in one run

\* ------------------------------------------------------- program constants
_ANON_VOTE_COOLDOWN == 60       \* timedelta(minutes=1), in seconds

\* ---------------------------------------------------------- input domains
None      == "None"                       \* Python None for str arguments
Voters    == {"v1", "v2"}
VoterArgs == Voters \cup {None, ""}
NoTags    == <<None>>                     \* tags=None
\* the (content, creator, tags) arguments tried by create_memory
CreateArgs ==
    { [content |-> <<"a">>,      creator |-> None,  tags |-> NoTags],
      [content |-> <<>>,         creator |-> None,  tags |-> <<>>],
      [content |-> <<" ", " ">>, creator |-> "bot", tags |-> NoTags] }
NewIds    == {1}                          \* the uuid4 ids that Memory() draws, in order
IdArgs    == {1, 2}                       \* memory_id arguments tried; 2 is never stored
NArgs     == {0, 1, 2}                    \* vote magnitudes tried
Callers   == {"c1", "c2"}
Latencies == {0, TickStep}                \* time between two clock reads of one call

\* ------------------------------------------------------------- timestamps
\* datetime.isoformat(): a clock reading rendered as text, here <<minutes, seconds>>;
\* an absent Optional[str] timestamp is None, rendered as the empty tuple.
NoneTs == <<>>

isoformat(t) == <<t \div 60, t % 60>>

fromisoformat(s) == s[1] * 60 + s[2]

\* a clock that always reads the epoch
_now_iso_Epoch(clk) == isoformat(0)

\* MemoryStore._now_iso: datetime.now(timezone.utc).isoformat()
_now_iso(clk) == isoformat(clk)

\* ------------------------------------------------------------------ models
VoteRecord(value, timestamp) == [value |-> value, timestamp |-> timestamp]

NoVoters == [v \in {} |-> VoteRecord(0, NoneTs)]

Memory(id, content, votes, created_at, last_updated, creator, tags) ==
    [id |-> id, content |-> content, votes |-> votes,
     created_at |-> created_at, last_updated |-> last_updated,
     creator |-> creator, tags |-> tags, voters |-> NoVoters,
     last_anon_vote_at |-> NoneTs]

\* what adapter.get returns for an id that is not stored (Python None)
NoMem == Memory(0, <<>>, 0, NoneTs, NoneTs, None, <<>>)

\* only None counted as absent
Truthy_NotNone(s) == s # None

\* Python truthiness of an Optional[str] argument: None and "" are falsy
Truthy(s) == s # None /\ s # ""

\* str.strip(): drop leading and trailing whitespace
RECURSIVE LStrip(_)
LStrip(s) == IF s # <<>> /\ Head(s) = " " THEN LStrip(Tail(s)) ELSE s

RECURSIVE RStrip(_)
RStrip(s) == IF s # <<>> /\ s[Len(s)] = " " THEN RStrip(SubSeq(s, 1, Len(s) - 1)) ELSE s

strip(s) == RStrip(LStrip(s))

\* only `not content`: whitespace-only text let through
ContentEmpty_NoStrip(content) == content = <<>>

\* `not content or not content.strip()`
ContentEmpty(content) == content = <<>> \/ strip(content) = <<>>

\* sum of the recorded values of a voters map
RECURSIVE SumVoters(_)
SumVoters(voters) ==
    IF DOMAIN voters = {} THEN 0
    ELSE LET v == CHOOSE x \in DOMAIN voters : TRUE
         IN  voters[v].value
             + SumVoters([w \in DOMAIN voters \ {v} |-> voters[w]])

\* ----------------------------------------------------------------- state
VARIABLES
    _data,      \* InMemoryAdapter._data: insertion-ordered dict, as a sequence of Memory
    clock,      \* datetime.now(timezone.utc), in seconds
    nextId,     \* the next uuid4 that Memory() draws
    result,     \* what the last completed Store call returned or raised
    removed,    \* ids for which remove_memory has returned True
    selfVoted,  \* ids created with a voter_id (creation vote pre-registered)
    cast,       \* <<id, voter_id>> of every identified vote recorded so far
    writes,     \* adapter writes so far
    pc,         \* SpecConc: per caller, "idle" or the pending adapter write
    local,      \* SpecConc: per caller, the Memory object it read and mutated
    path,       \* SpecFile: the file that JsonFileAdapter._path names, 0 if none
    inodes,     \* SpecFile: the text of every file of the directory
    flocks,     \* SpecFile: the flock()s held: <<file, process, "SH" or "EX">>
    fpc,        \* SpecFile: per process, its position in the adapter call it runs
    frame,      \* SpecFile: per process, the local variables of that call
    fresult,    \* SpecFile: per process, what its last completed call returned
    passed,     \* SpecFile: the documents passed to _write so far
    calls,      \* SpecFile: adapter calls started so far
    heap,       \* SpecHeap: the objects of the interpreter, by address
    slots,      \* SpecHeap: InMemoryAdapter._data, memory id -> address, 0 if no key
    obj,        \* SpecHeap: the Memory object the caller holds, 0 if None
    given,      \* SpecHeap: per id, the value of the object last passed to save
    rows,       \* SpecBackends: the committed rows of the SQLite table `memories`
    pending,    \* SpecBackends: per connection, its open transaction and what it sees
    open,       \* SpecBackends: the Store instances constructed so far
    jresult,    \* SpecBackends: what the last call of a Store over JsonFileAdapter gave
    qresult,    \* SpecBackends: what the last call of a Store over SqliteAdapter gave
    caller,     \* SpecBackends: the Store instance the last call was made through
    writer,     \* SpecBackends: the Store instance that made the last adapter write
    called,     \* SpecBackends: the Store call made last, with its arguments
    line,       \* SpecServe: the line of stdin that cmd_serve read last
    lineno,     \* SpecServe: lines of stdin read so far
    nonempty,   \* SpecServe: how many of them were not blank
    stdout,     \* SpecServe: the responses printed so far
    spc,        \* SpecServe: "idle", "reading", "done" (end of input) or "raised"
    saves,      \* SpecFault: adapter.save invocations of the last Store call
    afault      \* SpecFault: the exception the adapter raised in that call, or None

svars == <<_data, clock, nextId, result, removed, selfVoted, cast, writes, pc, local>>

fvars == <<path, inodes, flocks, fpc, frame, fresult, passed, calls>>

hvars == <<heap, slots, obj, given>>

bvars == <<rows, pending, open, jresult, qresult, caller, writer, called>>

rvars == <<line, lineno, nonempty, stdout, spc>>

avars == <<saves, afault>>

vars == <<svars, fvars, hvars, bvars, rvars, avars>>

\* ------------------------------------------------------- InMemoryAdapter
Ids(data) == {data[i].id : i \in 1 .. Len(data)}

IndexOf(data, id) == CHOOSE i \in 1 .. Len(data) : data[i].id = id

\* InMemoryAdapter.get: a deep copy of the stored memory, or None
AdapterGet(data, id) == IF id \in Ids(data) THEN data[IndexOf(data, id)] ELSE NoMem

\* a save that keeps the voter entries already stored and counts them
\* a save that keeps the voters entries it does not carry and stores the votes
\* it was handed
AdapterSave_KeepVoters(data, mem) ==
    IF mem.id \in Ids(data)
    THEN LET old    == data[IndexOf(data, mem.id)]
             stay   == DOMAIN old.voters \ DOMAIN mem.voters
             merged == [v \in DOMAIN mem.voters \cup stay |->
                           IF v \in stay THEN old.voters[v] ELSE mem.voters[v]]
         IN  [data EXCEPT ![IndexOf(data, mem.id)] = [mem EXCEPT !.voters = merged]]
    ELSE Append(data, mem)

AdapterSave_Merge(data, mem) ==
    IF mem.id \in Ids(data)
    THEN LET old    == data[IndexOf(data, mem.id)]
             kept   == DOMAIN old.voters \ DOMAIN mem.voters
             merged == [v \in DOMAIN mem.voters \cup kept |->
                           IF v \in kept THEN old.voters[v] ELSE mem.voters[v]]
         IN  [data EXCEPT ![IndexOf(data, mem.id)] =
                 [mem EXCEPT !.voters = merged,
                             !.votes = @ + SumVoters([v \in kept |-> old.voters[v]])]]
    ELSE Append(data, mem)

\* InMemoryAdapter.save: self._data[memory.id] = deepcopy(memory)
AdapterSave(data, mem) ==
    IF mem.id \in Ids(data)
    THEN [data EXCEPT ![IndexOf(data, mem.id)] = mem]
    ELSE Append(data, mem)

\* nothing popped
AdapterDelete_Keep(data, id) == data

\* InMemoryAdapter.delete: self._data.pop(memory_id, None)
AdapterDelete(data, id) ==
    IF id \in Ids(data)
    THEN LET i == IndexOf(data, id)
         IN  SubSeq(data, 1, i - 1) \o SubSeq(data, i + 1, Len(data))
    ELSE data

\* InMemoryAdapter.list_all: deep copies, in dict order
AdapterListAll(data) == data

\* ----------------------------------------------------------- call records
NoContent == <<None>>                     \* content=None (update_memory)
NoLimit   == <<>>                         \* limit=None

\* what the last completed Store call did: the condition it raised, or "ok" with
\* the Memory (None: NoMem), list, bool or dict it returned
NoCall == [err |-> "none", ret |-> NoMem, list |-> <<>>, flag |-> FALSE, dict |-> <<>>,
           text |-> None]

Returned(ret) == [NoCall EXCEPT !.err = "ok", !.ret = ret]

Raised(err) == [NoCall EXCEPT !.err = err]

Settled(out) == IF out.err = "ok" THEN Returned(out.mem) ELSE Raised(out.err)

\* the identified votes that a stored memory records
Recorded(mem) == {<<mem.id, v>> : v \in DOMAIN mem.voters}

\* an adapter write may still be started
CanWrite == writes + Cardinality({c \in Callers : pc[c] # "idle"}) < MaxWrites

StoreInit ==
    /\ _data = <<>>
    /\ clock = 0
    /\ nextId = 1
    /\ result = NoCall
    /\ removed = {}
    /\ selfVoted = {}
    /\ cast = {}
    /\ writes = 0
    /\ pc = [c \in Callers |-> "idle"]
    /\ local = [c \in Callers |-> NoMem]

\* time passes between calls
Tick ==
    /\ clock + TickStep <= MaxClock
    /\ clock' = clock + TickStep
    /\ UNCHANGED <<_data, nextId, result, removed, selfVoted, cast, writes, pc, local>>
    /\ UNCHANGED <<fvars, hvars, bvars, rvars, avars>>

\* ------------------------------------------------------------ MemoryStore
\* the creation vote counted a second time for a creator with a voter_id
NewMemory_Counted(id, content, creator, tags, voter_id, clk) ==
    LET now == _now_iso(clk)
        mem == Memory(id, content, 1, now, now, creator,
                      IF tags = NoTags THEN <<>> ELSE tags)
    IN  IF Truthy(voter_id)
        THEN [mem EXCEPT !.votes = 2,
                         !.voters = [v \in {voter_id} |-> VoteRecord(1, now)]]
        ELSE mem

\* the Memory that create_memory builds for a valid content
NewMemory(id, content, creator, tags, voter_id, clk) ==
    LET now == _now_iso(clk)
        mem == Memory(id, content, 1, now, now, creator,
                      IF tags = NoTags THEN <<>> ELSE tags)
    IN  IF Truthy(voter_id)
        THEN [mem EXCEPT !.voters = [v \in {voter_id} |-> VoteRecord(1, now)]]
        ELSE mem

\* MemoryStore.create_memory
create_memory(c, content, creator, tags, voter_id) ==
    /\ pc[c] = "idle"
    /\ IF ContentEmpty(content)
       THEN /\ result' = Raised("invalid-input")
            /\ UNCHANGED <<_data, nextId, selfVoted, cast, writes>>
       ELSE /\ nextId \in NewIds
            /\ CanWrite
            /\ writes' = writes + 1
            /\ LET mem == NewMemory(nextId, content, creator, tags, voter_id, clock)
               IN  /\ _data' = AdapterSave(_data, mem)
                   /\ result' = Returned(mem)
                   /\ selfVoted' = IF Truthy(voter_id) THEN selfVoted \cup {mem.id}
                                   ELSE selfVoted
                   /\ cast' = cast \cup Recorded(mem)
            /\ nextId' = nextId + 1
    /\ UNCHANGED <<clock, removed, pc, local>>
    /\ UNCHANGED <<fvars, hvars, bvars, rvars, avars>>

\* the lookup result left unchecked
NotFound_Never(mem) == FALSE

\* MemoryStore._get_or_raise: `if m is None: raise MemoryNotFoundError`
NotFound(mem) == mem = NoMem

\* a magnitude check that lets n = 0 through
BadMagnitude_Negative(n) == n < 0

\* `if n < 1: raise ValueError`
BadMagnitude(n) == n < 1

\* the dedupe test left out
AlreadyVoted_Never(mem, voter_id) == FALSE

\* the dedupe test on every vote the voter ever had recorded
AlreadyVoted_Ever(mem, voter_id) == <<mem.id, voter_id>> \in cast

\* `if voter_id in mem.voters: raise DuplicateVoteError`
AlreadyVoted(mem, voter_id) == voter_id \in DOMAIN mem.voters

\* the cooldown still running at exactly _ANON_VOTE_COOLDOWN
RateLimited_Inclusive(mem, clk2) ==
    /\ mem.last_anon_vote_at # NoneTs
    /\ clk2 - fromisoformat(mem.last_anon_vote_at) <= _ANON_VOTE_COOLDOWN

\* one cooldown for the whole store: the test made on the latest anonymous vote on
\* any memory
RateLimited_AnyMemory(mem, clk2) ==
    \E i \in DOMAIN _data :
        /\ _data[i].last_anon_vote_at # NoneTs
        /\ clk2 - fromisoformat(_data[i].last_anon_vote_at) < _ANON_VOTE_COOLDOWN

\* the anonymous cooldown test, made at a second clock reading clk2:
\* `if mem.last_anon_vote_at:` and `datetime.now(timezone.utc) - last < _ANON_VOTE_COOLDOWN`
RateLimited(mem, clk2) ==
    /\ mem.last_anon_vote_at # NoneTs
    /\ clk2 - fromisoformat(mem.last_anon_vote_at) < _ANON_VOTE_COOLDOWN

\* whether _vote reaches that second clock reading
ReadsClockTwice(data, id, voter_id, n) ==
    /\ ~BadMagnitude(n)
    /\ id \in Ids(data)
    /\ ~Truthy(voter_id)
    /\ AdapterGet(data, id).last_anon_vote_at # NoneTs

\* the direction recorded without the magnitude
RecordVote_Unit(mem, voter_id, direction, n, now) ==
    [mem EXCEPT !.voters = [v \in DOMAIN mem.voters \cup {voter_id} |->
                               IF v = voter_id THEN VoteRecord(direction, now)
                               ELSE mem.voters[v]]]

\* `mem.voters[voter_id] = VoteRecord(value=direction * n, timestamp=now)`
RecordVote(mem, voter_id, direction, n, now) ==
    [mem EXCEPT !.voters = [v \in DOMAIN mem.voters \cup {voter_id} |->
                               IF v = voter_id THEN VoteRecord(direction * n, now)
                               ELSE mem.voters[v]]]

\* the anonymous vote left unstamped
StampAnon_Skip(mem, now) == mem

\* `mem.last_anon_vote_at = now`
StampAnon(mem, now) == [mem EXCEPT !.last_anon_vote_at = now]

\* the magnitude left out of the running sum
CountVote_Unit(mem, direction, n, now) ==
    [mem EXCEPT !.votes = @ + direction, !.last_updated = now]

\* `mem.votes += direction * n; mem.last_updated = now`
CountVote(mem, direction, n, now) ==
    [mem EXCEPT !.votes = @ + direction * n, !.last_updated = now]

\* _vote with the lookup, the dedupe and the cooldown tests made before the
\* magnitude test
VoteOutcome_LookupFirst(data, id, direction, voter_id, n, clk, clk2) ==
    LET mem == AdapterGet(data, id)
        now == _now_iso(clk)
    IN  IF NotFound(mem) THEN [err |-> "not-found", mem |-> NoMem]
        ELSE IF Truthy(voter_id) /\ AlreadyVoted(mem, voter_id)
        THEN [err |-> "duplicate-vote", mem |-> NoMem]
        ELSE IF ~Truthy(voter_id) /\ RateLimited(mem, clk2)
        THEN [err |-> "rate-limited", mem |-> NoMem]
        ELSE IF BadMagnitude(n) THEN [err |-> "invalid-input", mem |-> NoMem]
        ELSE IF Truthy(voter_id)
        THEN [err |-> "ok",
              mem |-> CountVote(RecordVote(mem, voter_id, direction, n, now),
                                direction, n, now)]
        ELSE [err |-> "ok", mem |-> CountVote(StampAnon(mem, now), direction, n, now)]

\* MemoryStore._vote up to, not including, self._adapter.save(mem):
\* the condition raised, or the mutated local object
VoteOutcome(data, id, direction, voter_id, n, clk, clk2) ==
    LET mem == AdapterGet(data, id)
        now == _now_iso(clk)
    IN  IF BadMagnitude(n) THEN [err |-> "invalid-input", mem |-> NoMem]
        ELSE IF NotFound(mem) THEN [err |-> "not-found", mem |-> NoMem]
        ELSE IF Truthy(voter_id)
        THEN IF AlreadyVoted(mem, voter_id)
             THEN [err |-> "duplicate-vote", mem |-> NoMem]
             ELSE [err |-> "ok",
                   mem |-> CountVote(RecordVote(mem, voter_id, direction, n, now),
                                     direction, n, now)]
        ELSE IF RateLimited(mem, clk2)
             THEN [err |-> "rate-limited", mem |-> NoMem]
             ELSE [err |-> "ok",
                   mem |-> CountVote(StampAnon(mem, now), direction, n, now)]

\* MemoryStore._vote, run to completion
_vote(c, id, direction, voter_id, n) ==
    /\ pc[c] = "idle"
    /\ UNCHANGED <<nextId, removed, selfVoted, pc, local>>
    /\ \E d \in Latencies :
          /\ clock + d <= MaxClock
          /\ clock' = clock + d
          /\ d = 0 \/ ReadsClockTwice(_data, id, voter_id, n)
          /\ LET out == VoteOutcome(_data, id, direction, voter_id, n, clock, clock + d)
             IN  /\ out.err = "ok" => CanWrite
                 /\ writes' = IF out.err = "ok" THEN writes + 1 ELSE writes
                 /\ result' = Settled(out)
                 /\ _data' = IF out.err = "ok" THEN AdapterSave(_data, out.mem) ELSE _data
                 /\ cast' = IF out.err = "ok" THEN cast \cup Recorded(out.mem) ELSE cast
    /\ UNCHANGED <<fvars, hvars, bvars, rvars, avars>>

\* MemoryStore.upvote_memory
upvote_memory(c, id, voter_id, n) == _vote(c, id, 1, voter_id, n)

\* MemoryStore.downvote_memory
downvote_memory(c, id, voter_id, n) == _vote(c, id, -1, voter_id, n)

\* one vote taken back whatever value was recorded
RevokeVote_One(mem, voter_id, now) ==
    [mem EXCEPT !.voters = [v \in DOMAIN mem.voters \ {voter_id} |-> mem.voters[v]],
                !.votes = @ - 1,
                !.last_updated = now]

\* `mem.votes -= record.value; mem.last_updated = self._now_iso()`, after
\* `record = mem.voters.pop(voter_id, None)`
RevokeVote(mem, voter_id, now) ==
    [mem EXCEPT !.voters = [v \in DOMAIN mem.voters \ {voter_id} |-> mem.voters[v]],
                !.votes = @ - mem.voters[voter_id].value,
                !.last_updated = now]

\* the early return for a voter without a record left out
UnvoteOutcome_Touch(data, id, voter_id, clk) ==
    LET mem == AdapterGet(data, id)
    IN  IF NotFound(mem) THEN [err |-> "not-found", mem |-> NoMem, save |-> FALSE]
        ELSE IF voter_id \notin DOMAIN mem.voters
             THEN [err |-> "ok", mem |-> [mem EXCEPT !.last_updated = _now_iso(clk)],
                   save |-> TRUE]
        ELSE [err |-> "ok", mem |-> RevokeVote(mem, voter_id, _now_iso(clk)),
              save |-> TRUE]

\* MemoryStore.unvote_memory up to, not including, self._adapter.save(mem)
UnvoteOutcome(data, id, voter_id, clk) ==
    LET mem == AdapterGet(data, id)
    IN  IF NotFound(mem) THEN [err |-> "not-found", mem |-> NoMem, save |-> FALSE]
        ELSE IF voter_id \notin DOMAIN mem.voters
             THEN [err |-> "ok", mem |-> mem, save |-> FALSE]
        ELSE [err |-> "ok", mem |-> RevokeVote(mem, voter_id, _now_iso(clk)),
              save |-> TRUE]

\* MemoryStore.unvote_memory, run to completion
unvote_memory(c, id, voter_id) ==
    /\ pc[c] = "idle"
    /\ LET out == UnvoteOutcome(_data, id, voter_id, clock)
       IN  /\ out.save => CanWrite
           /\ writes' = IF out.save THEN writes + 1 ELSE writes
           /\ _data' = IF out.save THEN AdapterSave(_data, out.mem) ELSE _data
           /\ result' = Settled(out)
    /\ UNCHANGED <<clock, nextId, removed, selfVoted, cast, pc, local>>
    /\ UNCHANGED <<fvars, hvars, bvars, rvars, avars>>

\* MemoryStore.remove_memory
remove_memory(c, id) ==
    /\ pc[c] = "idle"
    /\ id \in Ids(_data) => CanWrite
    /\ writes' = IF id \in Ids(_data) THEN writes + 1 ELSE writes
    /\ _data' = AdapterDelete(_data, id)
    /\ result' = [NoCall EXCEPT !.err = "ok", !.flag = id \in Ids(_data)]
    /\ removed' = IF id \in Ids(_data) THEN removed \cup {id} ELSE removed
    /\ UNCHANGED <<clock, nextId, selfVoted, cast, pc, local>>
    /\ UNCHANGED <<fvars, hvars, bvars, rvars, avars>>

\* MemoryStore.get_memory
get_memory(c, id) ==
    /\ pc[c] = "idle"
    /\ result' = Returned(AdapterGet(_data, id))
    /\ UNCHANGED <<_data, clock, nextId, removed, selfVoted, cast, writes, pc, local>>
    /\ UNCHANGED <<fvars, hvars, bvars, rvars, avars>>

\* an update that forgets the recorded votes
UpdateOutcome_DropVoters(data, id, content, tags, clk, lookupFirst) ==
    LET mem     == AdapterGet(data, id)
        invalid == content # NoContent /\ ContentEmpty(content)
    IN  IF NotFound(mem) /\ (lookupFirst \/ ~invalid)
        THEN [err |-> "not-found", mem |-> NoMem]
        ELSE IF invalid THEN [err |-> "invalid-input", mem |-> NoMem]
        ELSE [err |-> "ok",
              mem |-> [mem EXCEPT
                         !.content = IF content = NoContent THEN @ ELSE content,
                         !.tags = IF tags = NoTags THEN @ ELSE tags,
                         !.voters = NoVoters,
                         !.last_updated = _now_iso(clk)]]

\* MemoryStore.update_memory(memory_id, content=None, tags=None): validates a supplied
\* content as create_memory does, looks the memory up, replaces the supplied fields
\* and advances last_updated. Which of the two failures is reported when both apply
\* is left open: lookupFirst chooses.
UpdateOutcome(data, id, content, tags, clk, lookupFirst) ==
    LET mem     == AdapterGet(data, id)
        invalid == content # NoContent /\ ContentEmpty(content)
    IN  IF NotFound(mem) /\ (lookupFirst \/ ~invalid)
        THEN [err |-> "not-found", mem |-> NoMem]
        ELSE IF invalid THEN [err |-> "invalid-input", mem |-> NoMem]
        ELSE [err |-> "ok",
              mem |-> [mem EXCEPT
                         !.content = IF content = NoContent THEN @ ELSE content,
                         !.tags = IF tags = NoTags THEN @ ELSE tags,
                         !.last_updated = _now_iso(clk)]]

update_memory(c, id, content, tags) ==
    /\ pc[c] = "idle"
    /\ \E lookupFirst \in BOOLEAN :
          LET out == UpdateOutcome(_data, id, content, tags, clock, lookupFirst)
          IN  /\ out.err = "ok" => CanWrite
              /\ writes' = IF out.err = "ok" THEN writes + 1 ELSE writes
              /\ _data' = IF out.err = "ok" THEN AdapterSave(_data, out.mem) ELSE _data
              /\ result' = Settled(out)
    /\ UNCHANGED <<clock, nextId, removed, selfVoted, cast, pc, local>>
    /\ UNCHANGED <<fvars, hvars, bvars, rvars, avars>>

\* str comparison of two isoformat() texts
StrLess(a, b) == a[1] < b[1] \/ (a[1] = b[1] /\ a[2] < b[2])

\* a comparison that sorts ascending
KeyLess_Ascending(order_by, a, b) ==
    IF order_by = "votes" THEN b.votes < a.votes
    ELSE StrLess(b.created_at, a.created_at)

\* key(a) < key(b) for the sort key that order_by selects
KeyLess(order_by, a, b) ==
    IF order_by = "votes" THEN a.votes < b.votes
    ELSE StrLess(a.created_at, b.created_at)

\* list.sort(key=..., reverse=True): descending, equal keys keep their order
RECURSIVE InsertDesc(_, _, _)
InsertDesc(order_by, x, sorted) ==
    IF sorted = <<>> THEN <<x>>
    ELSE IF KeyLess(order_by, Head(sorted), x) THEN <<x>> \o sorted
    ELSE <<Head(sorted)>> \o InsertDesc(order_by, x, Tail(sorted))

RECURSIVE SortDesc(_, _)
SortDesc(order_by, seq) ==
    IF seq = <<>> THEN <<>>
    ELSE InsertDesc(order_by, seq[Len(seq)],
                    SortDesc(order_by, SubSeq(seq, 1, Len(seq) - 1)))

\* a filter that wants every requested tag on the memory
TagsIntersect_All(tags, m) == \A i \in DOMAIN tags : \E j \in DOMAIN m.tags : tags[i] = m.tags[j]

\* `tag_set & set(m.tags)` is non-empty
TagsIntersect(tags, m) == \E i \in DOMAIN tags, j \in DOMAIN m.tags : tags[i] = m.tags[j]

\* a slice that stops one element early
Truncate_Short(seq, limit) ==
    IF limit = NoLimit THEN seq
    ELSE SubSeq(seq, 1, IF limit[1] < Len(seq) THEN limit[1] - 1 ELSE Len(seq))

\* memories[:limit]; a negative limit counts from the end of the list
Truncate(seq, limit) ==
    IF limit = NoLimit THEN seq
    ELSE IF limit[1] < 0
    THEN SubSeq(seq, 1, IF Len(seq) + limit[1] > 0 THEN Len(seq) + limit[1] ELSE 0)
    ELSE SubSeq(seq, 1, IF limit[1] < Len(seq) THEN limit[1] ELSE Len(seq))

_VALID_ORDER_BY == {"votes", "created_at"}

\* MemoryStore.list_memories: what it returns for a valid order_by
ListOutcome(data, order_by, limit, tags) ==
    LET all      == AdapterListAll(data)
        Keep(m)  == TagsIntersect(tags, m)
        filtered == IF tags # NoTags /\ tags # <<>> THEN SelectSeq(all, Keep) ELSE all
    IN  Truncate(SortDesc(order_by, filtered), limit)

list_memories(c, order_by, limit, tags) ==
    /\ pc[c] = "idle"
    /\ result' = IF order_by \notin _VALID_ORDER_BY THEN Raised("invalid-input")
                 ELSE [NoCall EXCEPT !.err = "ok",
                                     !.list = ListOutcome(_data, order_by, limit, tags)]
    /\ UNCHANGED <<_data, clock, nextId, removed, selfVoted, cast, writes, pc, local>>
    /\ UNCHANGED <<fvars, hvars, bvars, rvars, avars>>

\* the (content, tags) arguments tried by update_memory
UpdateArgs ==
    { [content |-> <<" ", "b">>,   tags |-> <<"py">>],
      [content |-> NoContent,      tags |-> NoTags],
      [content |-> <<" ", " ">>,   tags |-> NoTags] }

\* the (order_by, limit, tags) arguments tried by list_memories
ListArgs ==
    { [order_by |-> "votes",      limit |-> NoLimit, tags |-> NoTags],
      [order_by |-> "votes",      limit |-> <<0>>,   tags |-> <<"py">>],
      [order_by |-> "created_at", limit |-> <<1>>,   tags |-> <<>>],
      [order_by |-> "created_at", limit |-> <<2>>,   tags |-> <<"py">>],
      [order_by |-> "id",         limit |-> NoLimit, tags |-> NoTags],
      [order_by |-> "",           limit |-> <<1>>,   tags |-> <<"py">>] }

\* ======================================================= JsonFileAdapter
\* a dict as the sequence of its (key, value) items; d.get(key, default)
DictGet(d, key, default) ==
    IF \E i \in DOMAIN d : d[i][1] = key
    THEN d[CHOOSE i \in DOMAIN d : d[i][1] = key][2]
    ELSE default

\* VoteRecord.to_dict
VoteRecord_to_dict(rec) == << <<"value", rec.value>>, <<"timestamp", rec.timestamp>> >>

\* VoteRecord.from_dict
VoteRecord_from_dict(d) == VoteRecord(DictGet(d, "value", 0), DictGet(d, "timestamp", NoneTs))

\* Memory.to_dict
to_dict(mem) ==
    << <<"id", mem.id>>, <<"content", mem.content>>, <<"votes", mem.votes>>,
       <<"created_at", mem.created_at>>, <<"last_updated", mem.last_updated>>,
       <<"creator", mem.creator>>, <<"tags", mem.tags>>,
       <<"voters", [k \in DOMAIN mem.voters |-> VoteRecord_to_dict(mem.voters[k])]>>,
       <<"last_anon_vote_at", mem.last_anon_vote_at>> >>

\* a from_dict that forgets the time of the last anonymous vote
from_dict_NoAnon(d) ==
    LET voters == DictGet(d, "voters", NoVoters)
    IN  [id |-> DictGet(d, "id", 0),
         content |-> DictGet(d, "content", <<>>),
         votes |-> DictGet(d, "votes", 1),
         created_at |-> DictGet(d, "created_at", NoneTs),
         last_updated |-> DictGet(d, "last_updated", NoneTs),
         creator |-> DictGet(d, "creator", None),
         tags |-> DictGet(d, "tags", <<>>),
         voters |-> [k \in DOMAIN voters |-> VoteRecord_from_dict(voters[k])],
         last_anon_vote_at |-> NoneTs]

\* Memory.from_dict
from_dict(d) ==
    LET voters == DictGet(d, "voters", NoVoters)
    IN  [id |-> DictGet(d, "id", 0),
         content |-> DictGet(d, "content", <<>>),
         votes |-> DictGet(d, "votes", 1),
         created_at |-> DictGet(d, "created_at", NoneTs),
         last_updated |-> DictGet(d, "last_updated", NoneTs),
         creator |-> DictGet(d, "creator", None),
         tags |-> DictGet(d, "tags", <<>>),
         voters |-> [k \in DOMAIN voters |-> VoteRecord_from_dict(voters[k])],
         last_anon_vote_at |-> DictGet(d, "last_anon_vote_at", NoneTs)]

\* the processes that share the JSON file, and what they are asked to do
Procs     == {"p1", "p2"}
FileIds   == {1, 2}
FileMems  == { Memory(1, <<"a">>, 1, isoformat(0), isoformat(0), None, <<>>),
               Memory(1, <<"a">>, 2, isoformat(0), isoformat(30), None, <<>>),
               Memory(2, <<"b">>, 1, isoformat(0), isoformat(0), "bot", <<"py">>) }

\* the text of a file as the sequence of the chunks written to it
OpenBrace  == [kind |-> "{", key |-> 0, val |-> <<>>]
CloseBrace == [kind |-> "}", key |-> 0, val |-> <<>>]
Item(key, val) == [kind |-> "item", key |-> key, val |-> val]

\* the document of the file: memory id -> dict, in insertion order, as (id, dict) pairs
EmptyDoc == <<>>

\* json.dump(data, fh): the chunks it writes
json_dump(data) ==
    <<OpenBrace>> \o [i \in DOMAIN data |-> Item(data[i][1], data[i][2])] \o <<CloseBrace>>

\* a text that json.load accepts
IsDocument(text) ==
    /\ Len(text) >= 2
    /\ text[1] = OpenBrace
    /\ text[Len(text)] = CloseBrace
    /\ \A i \in 2 .. Len(text) - 1 : text[i].kind = "item"

\* json.load(fh) of an accepted text
json_load(text) == [i \in 1 .. Len(text) - 2 |-> <<text[i + 1].key, text[i + 1].val>>]

DocIds(data) == {data[i][1] : i \in DOMAIN data}

DocIndex(data, id) == CHOOSE i \in DOMAIN data : data[i][1] = id

\* a put that writes over the first entry of the document
DocPut_First(data, id, d) ==
    IF data = <<>> THEN <<<<id, d>>>> ELSE [data EXCEPT ![1] = <<id, d>>]

\* data[memory.id] = memory.to_dict()
DocPut(data, id, d) ==
    IF id \in DocIds(data) THEN [data EXCEPT ![DocIndex(data, id)] = <<id, d>>]
    ELSE Append(data, <<id, d>>)

\* del data[memory_id]
DocDel(data, id) ==
    LET i == DocIndex(data, id)
    IN  SubSeq(data, 1, i - 1) \o SubSeq(data, i + 1, Len(data))

\* the text at the target path, <<>> when the path names no file
TargetText == IF path = 0 THEN <<>> ELSE inodes[path]

\* what a process holds while it runs one adapter call
NoFrame == [op |-> "none", id |-> 0, d |-> <<>>, fh |-> 0, data |-> EmptyDoc,
            tmp |-> 0, todo |-> <<>>]

\* what the last completed adapter call of a process returned or raised
NoFileResult == [err |-> "none", flag |-> FALSE, mems |-> <<>>]

Busy(p) == fpc[p] \notin {"idle", "crashed"}

FileInit ==
    /\ path = 0
    /\ inodes = <<>>
    /\ flocks = {}
    /\ fpc = [p \in Procs |-> "idle"]
    /\ frame = [p \in Procs |-> NoFrame]
    /\ fresult = [p \in Procs |-> NoFileResult]
    /\ passed = {}
    /\ calls = 0

\* a call enters the adapter; each of the four begins with self._read()
Enter(p, op, id, d) ==
    /\ fpc[p] = "idle"
    /\ calls < MaxCalls
    /\ calls' = calls + 1
    /\ fpc' = [fpc EXCEPT ![p] = "exists"]
    /\ frame' = [frame EXCEPT ![p] = [NoFrame EXCEPT !.op = op, !.id = id, !.d = d]]
    /\ UNCHANGED <<path, inodes, flocks, fresult, passed>>
    /\ UNCHANGED <<svars, hvars, bvars, rvars, avars>>

\* JsonFileAdapter.save
save(p, memory) == Enter(p, "save", memory.id, to_dict(memory))

\* JsonFileAdapter.get
get(p, memory_id) == Enter(p, "get", memory_id, <<>>)

\* JsonFileAdapter.delete
delete(p, memory_id) == Enter(p, "delete", memory_id, <<>>)

\* JsonFileAdapter.list_all
list_all(p) == Enter(p, "list_all", 0, <<>>)

\* _read: `if not self._path.exists(): return {}`
_read_exists(p) ==
    /\ fpc[p] = "exists"
    /\ fpc' = [fpc EXCEPT ![p] = IF path = 0 THEN "read" ELSE "open"]
    /\ frame' = [frame EXCEPT ![p].data = EmptyDoc]
    /\ UNCHANGED <<path, inodes, flocks, fresult, passed, calls>>
    /\ UNCHANGED <<svars, hvars, bvars, rvars, avars>>

\* _read: `open(self._path, "r")`: the handle is on the file that the path names now
_read_open(p) ==
    /\ fpc[p] = "open"
    /\ fpc' = [fpc EXCEPT ![p] = "flock_sh"]
    /\ frame' = [frame EXCEPT ![p].fh = path]
    /\ UNCHANGED <<path, inodes, flocks, fresult, passed, calls>>
    /\ UNCHANGED <<svars, hvars, bvars, rvars, avars>>

\* _read: `fcntl.flock(fh, fcntl.LOCK_SH)` waits while another holds LOCK_EX on the file
_read_flock_sh(p) ==
    /\ fpc[p] = "flock_sh"
    /\ ~\E q \in Procs \ {p} : <<frame[p].fh, q, "EX">> \in flocks
    /\ flocks' = flocks \cup {<<frame[p].fh, p, "SH">>}
    /\ fpc' = [fpc EXCEPT ![p] = "load"]
    /\ UNCHANGED <<path, inodes, frame, fresult, passed, calls>>
    /\ UNCHANGED <<svars, hvars, bvars, rvars, avars>>

\* _read: `data = json.load(fh)`; a text that is no document raises JSONDecodeError,
\* which ends the call after the `finally` has unlocked
_read_load(p) ==
    /\ fpc[p] = "load"
    /\ LET text == inodes[frame[p].fh]
       IN  IF IsDocument(text)
           THEN /\ frame' = [frame EXCEPT ![p].data = json_load(text)]
                /\ fpc' = [fpc EXCEPT ![p] = "unlock_sh"]
                /\ UNCHANGED <<flocks, fresult>>
           ELSE /\ frame' = [frame EXCEPT ![p] = NoFrame]
                /\ fpc' = [fpc EXCEPT ![p] = "idle"]
                /\ flocks' = flocks \ {<<frame[p].fh, p, "SH">>}
                /\ fresult' = [fresult EXCEPT ![p] = [NoFileResult EXCEPT !.err = "decode-error"]]
    /\ UNCHANGED <<path, inodes, passed, calls>>
    /\ UNCHANGED <<svars, hvars, bvars, rvars, avars>>

\* _read: `fcntl.flock(fh, fcntl.LOCK_UN)`, the file is closed, `return data`
_read_unlock(p) ==
    /\ fpc[p] = "unlock_sh"
    /\ flocks' = flocks \ {<<frame[p].fh, p, "SH">>}
    /\ fpc' = [fpc EXCEPT ![p] = "read"]
    /\ frame' = [frame EXCEPT ![p].fh = 0]
    /\ UNCHANGED <<path, inodes, fresult, passed, calls>>
    /\ UNCHANGED <<svars, hvars, bvars, rvars, avars>>

\* the call ends: its result, and the process is idle again
Return(p, res) ==
    /\ fpc' = [fpc EXCEPT ![p] = "idle"]
    /\ frame' = [frame EXCEPT ![p] = NoFrame]
    /\ fresult' = [fresult EXCEPT ![p] = res]

\* self._write(data) is entered with the document to write
Call_write(p, data) ==
    /\ fpc' = [fpc EXCEPT ![p] = "mkstemp"]
    /\ frame' = [frame EXCEPT ![p].data = data]
    /\ passed' = passed \cup {data}
    /\ UNCHANGED fresult

\* the lines of save, get, delete and list_all between self._read() and self._write(data)
after_read(p) ==
    /\ fpc[p] = "read"
    /\ LET f == frame[p]
       IN  CASE f.op = "save" ->
                  Call_write(p, DocPut(f.data, f.id, f.d))
             [] f.op = "delete" ->
                  IF f.id \notin DocIds(f.data)
                  THEN Return(p, [NoFileResult EXCEPT !.err = "ok", !.flag = FALSE])
                       /\ UNCHANGED passed
                  ELSE Call_write(p, DocDel(f.data, f.id))
             [] f.op = "get" ->
                  /\ Return(p, [NoFileResult EXCEPT
                                   !.err = "ok",
                                   !.mems = IF f.id \in DocIds(f.data)
                                            THEN <<from_dict(f.data[DocIndex(f.data, f.id)][2])>>
                                            ELSE <<>>])
                  /\ UNCHANGED passed
             [] OTHER ->
                  /\ Return(p, [NoFileResult EXCEPT
                                   !.err = "ok",
                                   !.mems = [i \in DOMAIN f.data |-> from_dict(f.data[i][2])]])
                  /\ UNCHANGED passed
    /\ UNCHANGED <<path, inodes, flocks, calls>>
    /\ UNCHANGED <<svars, hvars, bvars, rvars, avars>>

\* the target file truncated and rewritten in place
_write_mkstemp_InPlace(p) ==
    /\ fpc[p] = "mkstemp"
    /\ inodes' = IF path = 0 THEN Append(inodes, <<>>) ELSE [inodes EXCEPT ![path] = <<>>]
    /\ frame' = [frame EXCEPT ![p].tmp = IF path = 0 THEN Len(inodes) + 1 ELSE path,
                              ![p].todo = json_dump(frame[p].data)]
    /\ fpc' = [fpc EXCEPT ![p] = "flock_ex"]
    /\ UNCHANGED <<path, flocks, fresult, passed, calls>>
    /\ UNCHANGED <<svars, hvars, bvars, rvars, avars>>

\* _write: `tempfile.mkstemp(dir=..., suffix=".tmp")`: a new, empty file of its own
_write_mkstemp(p) ==
    /\ fpc[p] = "mkstemp"
    /\ inodes' = Append(inodes, <<>>)
    /\ frame' = [frame EXCEPT ![p].tmp = Len(inodes) + 1, ![p].todo = json_dump(frame[p].data)]
    /\ fpc' = [fpc EXCEPT ![p] = "flock_ex"]
    /\ UNCHANGED <<path, flocks, fresult, passed, calls>>
    /\ UNCHANGED <<svars, hvars, bvars, rvars, avars>>

\* a writer that takes its exclusive lock on the target file when there is one
_write_flock_ex_Target(p) ==
    /\ fpc[p] = "flock_ex"
    /\ LET f == IF path = 0 THEN frame[p].tmp ELSE path
       IN  /\ ~\E q \in Procs \ {p}, k \in {"SH", "EX"} : <<f, q, k>> \in flocks
           /\ flocks' = flocks \cup {<<f, p, "EX">>}
    /\ fpc' = [fpc EXCEPT ![p] = "dump"]
    /\ UNCHANGED <<path, inodes, frame, fresult, passed, calls>>
    /\ UNCHANGED <<svars, hvars, bvars, rvars, avars>>

\* _write: `fcntl.flock(fh, fcntl.LOCK_EX)` waits while another holds a lock on the file
_write_flock_ex(p) ==
    /\ fpc[p] = "flock_ex"
    /\ ~\E q \in Procs \ {p}, k \in {"SH", "EX"} : <<frame[p].tmp, q, k>> \in flocks
    /\ flocks' = flocks \cup {<<frame[p].tmp, p, "EX">>}
    /\ fpc' = [fpc EXCEPT ![p] = "dump"]
    /\ UNCHANGED <<path, inodes, frame, fresult, passed, calls>>
    /\ UNCHANGED <<svars, hvars, bvars, rvars, avars>>

\* _write: `json.dump(data, fh, indent=2)`: the text reaches the file chunk by chunk
_write_dump(p) ==
    /\ fpc[p] = "dump"
    /\ frame[p].todo # <<>>
    /\ inodes' = [inodes EXCEPT ![frame[p].tmp] = Append(@, Head(frame[p].todo))]
    /\ frame' = [frame EXCEPT ![p].todo = Tail(@)]
    /\ UNCHANGED <<path, flocks, fpc, fresult, passed, calls>>
    /\ UNCHANGED <<svars, hvars, bvars, rvars, avars>>

\* _write: `fh.flush(); os.fsync(fh.fileno()); fcntl.flock(fh, fcntl.LOCK_UN)`
_write_sync_unlock(p) ==
    /\ fpc[p] = "dump"
    /\ frame[p].todo = <<>>
    /\ flocks' = flocks \ {<<frame[p].tmp, p, "EX">>}
    /\ fpc' = [fpc EXCEPT ![p] = "replace"]
    /\ UNCHANGED <<path, inodes, frame, fresult, passed, calls>>
    /\ UNCHANGED <<svars, hvars, bvars, rvars, avars>>

\* a rename that is refused when it would drop a memory another writer has added
_write_replace_Checked(p) ==
    /\ fpc[p] = "replace"
    /\ IF DocIds(json_load(TargetText)) \subseteq DocIds(frame[p].data) \cup {frame[p].id}
       THEN /\ path' = frame[p].tmp
            /\ Return(p, [NoFileResult EXCEPT !.err = "ok", !.flag = frame[p].op = "delete"])
       ELSE /\ path' = path
            /\ Return(p, [NoFileResult EXCEPT !.err = "conflict"])
    /\ UNCHANGED <<inodes, flocks, passed, calls>>
    /\ UNCHANGED <<svars, hvars, bvars, rvars, avars>>

\* _write: `os.replace(tmp, str(self._path))`, then save returns None, delete True
_write_replace(p) ==
    /\ fpc[p] = "replace"
    /\ path' = frame[p].tmp
    /\ Return(p, [NoFileResult EXCEPT !.err = "ok", !.flag = frame[p].op = "delete"])
    /\ UNCHANGED <<inodes, flocks, passed, calls>>
    /\ UNCHANGED <<svars, hvars, bvars, rvars, avars>>

\* the process dies inside _write: its locks go with it, its temporary file stays
crash(p) ==
    /\ fpc[p] \in {"mkstemp", "flock_ex", "dump", "replace"}
    /\ fpc' = [fpc EXCEPT ![p] = "crashed"]
    /\ flocks' = {l \in flocks : l[2] # p}
    /\ frame' = [frame EXCEPT ![p] = NoFrame]
    /\ UNCHANGED <<path, inodes, fresult, passed, calls>>
    /\ UNCHANGED <<svars, hvars, bvars, rvars, avars>>

\* one step of the call that process p is running
Step(p) ==
    \/ _read_exists(p)
    \/ _read_open(p)
    \/ _read_flock_sh(p)
    \/ _read_load(p)
    \/ _read_unlock(p)
    \/ after_read(p)
    \/ _write_mkstemp(p)
    \/ _write_flock_ex(p)
    \/ _write_dump(p)
    \/ _write_sync_unlock(p)
    \/ _write_replace(p)

NextFile ==
    \/ \E p \in Procs, memory \in FileMems : save(p, memory)
    \/ \E p \in Procs, memory_id \in FileIds : get(p, memory_id)
    \/ \E p \in Procs, memory_id \in FileIds : delete(p, memory_id)
    \/ \E p \in Procs : list_all(p)
    \/ \E p \in Procs : _read_exists(p)
    \/ \E p \in Procs : _read_open(p)
    \/ \E p \in Procs : _read_flock_sh(p)
    \/ \E p \in Procs : _read_load(p)
    \/ \E p \in Procs : _read_unlock(p)
    \/ \E p \in Procs : after_read(p)
    \/ \E p \in Procs : _write_mkstemp(p)
    \/ \E p \in Procs : _write_flock_ex(p)
    \/ \E p \in Procs : _write_dump(p)
    \/ \E p \in Procs : _write_sync_unlock(p)
    \/ \E p \in Procs : _write_replace(p)
    \/ \E p \in Procs : crash(p)

\* ------------------------------- InMemoryAdapter and the objects it is handed
HeapIds == {1, 2}

\* the vote counts a caller gives an object it holds
HeapVotes == {1, 2}

\* a list object, a dict object and a Memory object, which refers to its tags list
\* and its voters dict by address
ListCell(items) ==
    [kind |-> "list", id |-> 0, votes |-> 0, tags |-> 0, voters |-> 0,
     list |-> items, dict |-> {}]

DictCell(items) ==
    [kind |-> "dict", id |-> 0, votes |-> 0, tags |-> 0, voters |-> 0,
     list |-> <<>>, dict |-> items]

MemCell(id, votes, tags, voters) ==
    [kind |-> "Memory", id |-> id, votes |-> votes, tags |-> tags, voters |-> voters,
     list |-> <<>>, dict |-> {}]

\* the value of the Memory object at address a
Deref(h, a) ==
    [id |-> h[a].id, votes |-> h[a].votes,
     tags |-> h[h[a].tags].list, voters |-> h[h[a].voters].dict]

NoValue == [id |-> 0, votes |-> 0, tags |-> <<>>, voters |-> {}]

\* the objects reachable from the Memory object at address a
Cells(h, a) == IF a = 0 THEN {} ELSE {a, h[a].tags, h[a].voters}

\* copy.copy: a new Memory object that shares the tags list and the voters dict
deepcopy_Shallow(h, a) == Append(h, h[a])

\* copy.deepcopy of the Memory object at address a: the heap with the copy, which
\* is its last object
deepcopy(h, a) ==
    h \o << ListCell(h[h[a].tags].list),
            DictCell(h[h[a].voters].dict),
            MemCell(h[a].id, h[a].votes, Len(h) + 1, Len(h) + 2) >>

\* the objects still referred to by the adapter's dict or by the caller
Live(h, sl, o) == UNION {Cells(h, sl[id]) : id \in HeapIds} \cup Cells(h, o)

\* the place of address a among the live addresses L
Rank(L, a) == IF a = 0 THEN 0 ELSE Cardinality({b \in L : b <= a})

\* objects that nothing refers to are freed; the others keep their order
Release(h, sl, o) ==
    LET L == Live(h, sl, o)
    IN  [heap  |-> [i \in 1 .. Cardinality(L) |->
                       LET a == CHOOSE b \in L : Rank(L, b) = i
                       IN  [h[a] EXCEPT !.tags = Rank(L, @), !.voters = Rank(L, @)]],
         slots |-> [id \in HeapIds |-> Rank(L, sl[id])],
         obj   |-> Rank(L, o)]

\* the heap, the adapter's dict and the caller's reference after a statement
Become(h, sl, o) ==
    LET r == Release(h, sl, o)
    IN  heap' = r.heap /\ slots' = r.slots /\ obj' = r.obj

HeapInit ==
    /\ heap = <<>>
    /\ slots = [id \in HeapIds |-> 0]
    /\ obj = 0
    /\ given = [id \in HeapIds |-> NoValue]

\* the caller constructs a Memory: votes 1, no tags, no voters
Memory_new(id) ==
    /\ LET h == heap \o << ListCell(<<>>), DictCell({}),
                           MemCell(id, 1, Len(heap) + 1, Len(heap) + 2) >>
       IN  Become(h, slots, Len(h))
    /\ UNCHANGED given
    /\ UNCHANGED <<svars, fvars, bvars, rvars, avars>>

\* InMemoryAdapter.save: `self._data[memory.id] = copy.deepcopy(memory)`
InMemory_save ==
    /\ obj # 0
    /\ LET h == deepcopy(heap, obj)
       IN  Become(h, [slots EXCEPT ![heap[obj].id] = Len(h)], obj)
    /\ given' = [given EXCEPT ![heap[obj].id] = Deref(heap, obj)]
    /\ UNCHANGED <<svars, fvars, bvars, rvars, avars>>

\* InMemoryAdapter.get: `mem = self._data.get(memory_id)`,
\* `return copy.deepcopy(mem) if mem else None`
InMemory_get(memory_id) ==
    /\ IF slots[memory_id] = 0
       THEN Become(heap, slots, 0)
       ELSE LET h == deepcopy(heap, slots[memory_id])
            IN  Become(h, slots, Len(h))
    /\ UNCHANGED given
    /\ UNCHANGED <<svars, fvars, bvars, rvars, avars>>

\* InMemoryAdapter.delete: `self._data.pop(memory_id, None) is not None`
InMemory_delete(memory_id) ==
    /\ slots[memory_id] # 0
    /\ Become(heap, [slots EXCEPT ![memory_id] = 0], obj)
    /\ given' = [given EXCEPT ![memory_id] = NoValue]
    /\ UNCHANGED <<svars, fvars, bvars, rvars, avars>>

\* the stored ids in the order list_all copies them
RECURSIVE StoredOrder(_)
StoredOrder(ids) ==
    IF ids = {} THEN <<>>
    ELSE LET id == CHOOSE i \in ids : \A j \in ids : i <= j
         IN  <<id>> \o StoredOrder(ids \ {id})

\* the heap after the first k of the stored memories have been copied
RECURSIVE CopyAll(_, _, _)
CopyAll(h, order, k) ==
    IF k = 0 THEN h ELSE deepcopy(CopyAll(h, order, k - 1), slots[order[k]])

\* InMemoryAdapter.list_all: `[copy.deepcopy(m) for m in self._data.values()]`; the
\* caller keeps one element of the list
InMemory_list_all ==
    LET order == StoredOrder({id \in HeapIds : slots[id] # 0})
    IN  /\ order # <<>>
        /\ \E k \in 1 .. Len(order) :
              Become(CopyAll(heap, order, Len(order)), slots, Len(CopyAll(heap, order, k)))
        /\ UNCHANGED given
        /\ UNCHANGED <<svars, fvars, bvars, rvars, avars>>

\* the caller changes the object it holds: `mem.votes += 1` (store.py: _vote)
Mutate_votes ==
    /\ obj # 0
    /\ heap[obj].votes + 1 \in HeapVotes
    /\ heap' = [heap EXCEPT ![obj].votes = @ + 1]
    /\ UNCHANGED <<slots, obj, given>>
    /\ UNCHANGED <<svars, fvars, bvars, rvars, avars>>

\* the caller changes the object it holds: `mem.tags.append(tag)`
Mutate_tags ==
    /\ obj # 0
    /\ heap[heap[obj].tags].list = <<>>
    /\ heap' = [heap EXCEPT ![heap[obj].tags].list = <<"py">>]
    /\ UNCHANGED <<slots, obj, given>>
    /\ UNCHANGED <<svars, fvars, bvars, rvars, avars>>

\* the caller changes the object it holds: `mem.voters[voter_id] = VoteRecord(...)`
\* (store.py: _vote) and `mem.voters.pop(voter_id, None)` (store.py: unvote_memory)
Mutate_voters ==
    /\ obj # 0
    /\ heap' = [heap EXCEPT ![heap[obj].voters].dict =
                                IF @ = {} THEN {<<"v1", 1>>} ELSE {}]
    /\ UNCHANGED <<slots, obj, given>>
    /\ UNCHANGED <<svars, fvars, bvars, rvars, avars>>

NextHeap ==
    \/ \E id \in HeapIds : Memory_new(id)
    \/ InMemory_save
    \/ \E memory_id \in HeapIds : InMemory_get(memory_id)
    \/ \E memory_id \in HeapIds : InMemory_delete(memory_id)
    \/ InMemory_list_all
    \/ Mutate_votes
    \/ Mutate_tags
    \/ Mutate_voters

\* ---------------------------------------------------------- SqliteAdapter
\* json.dumps and json.loads of a column value: the text of a value, and back
json_dumps(value) == [json |-> value]

json_loads(text) == text.json

\* SqliteAdapter._memory_to_params: the row of a memory, in the order of the columns
_memory_to_params(memory) ==
    << memory.id, memory.content, memory.votes, memory.created_at, memory.last_updated,
       memory.creator, json_dumps(memory.tags),
       json_dumps([k \in DOMAIN memory.voters |-> VoteRecord_to_dict(memory.voters[k])]),
       memory.last_anon_vote_at >>

\* SqliteAdapter._row_to_memory
_row_to_memory(row) ==
    LET voters == json_loads(row[8])
    IN  [id |-> row[1], content |-> row[2], votes |-> row[3], created_at |-> row[4],
         last_updated |-> row[5], creator |-> row[6], tags |-> json_loads(row[7]),
         voters |-> [k \in DOMAIN voters |-> VoteRecord_from_dict(voters[k])],
         last_anon_vote_at |-> row[9]]

\* INSERT OR IGNORE: a row with the id is left as it is
Upsert_Ignore(table, params) ==
    IF \E i \in DOMAIN table : table[i][1] = params[1] THEN table ELSE Append(table, params)

\* a plain INSERT with no key on id
Upsert_Insert(table, params) == Append(table, params)

\* INSERT ... ON CONFLICT(id) DO UPDATE SET every column but id and created_at
Upsert(table, params) ==
    IF \E i \in DOMAIN table : table[i][1] = params[1]
    THEN LET i == CHOOSE k \in DOMAIN table : table[k][1] = params[1]
         IN  [table EXCEPT ![i] = << @[1], params[2], params[3], @[4], params[5], params[6],
                                     params[7], params[8], params[9] >>]
    ELSE Append(table, params)

\* DELETE FROM memories WHERE id = ?
DeleteRow(table, memory_id) ==
    LET Other(row) == row[1] # memory_id IN SelectSeq(table, Other)

\* a connection without an open transaction
NoTxn == [active |-> FALSE, table |-> <<>>]

\* the table as connection c sees it: the committed rows, or its own transaction
ConnTable(db, c) == IF db.pending[c].active THEN db.pending[c].table ELSE db.rows

\* self._conn.execute of a statement that writes: the connection's transaction holds
\* the table the statement leaves
Execute(db, c, table) ==
    [db EXCEPT !.pending[c] = [active |-> TRUE, table |-> table]]

\* a commit that is left out
Commit_Skip(db, c) == db

\* self._conn.commit()
Commit(db, c) ==
    IF db.pending[c].active
    THEN [rows |-> db.pending[c].table, pending |-> [db.pending EXCEPT ![c] = NoTxn]]
    ELSE db

\* SqliteAdapter.save
Sqlite_save(db, c, memory) ==
    Commit(Execute(db, c, Upsert(ConnTable(db, c), _memory_to_params(memory))), c)

\* SqliteAdapter.delete: the database after it; `cur.rowcount > 0`
Sqlite_delete(db, c, memory_id) ==
    Commit(Execute(db, c, DeleteRow(ConnTable(db, c), memory_id)), c)

Sqlite_deleted(db, c, memory_id) == \E i \in DOMAIN ConnTable(db, c) : ConnTable(db, c)[i][1] = memory_id

\* SqliteAdapter.list_all: `SELECT * FROM memories`, rows in rowid order
Sqlite_list_all(db, c) ==
    [i \in DOMAIN ConnTable(db, c) |-> _row_to_memory(ConnTable(db, c)[i])]

\* ------------------------------------ JsonFileAdapter calls run to completion
\* _read: the document of the file, {} when there is none
JsonDoc == IF path = 0 THEN EmptyDoc ELSE json_load(inodes[path])

\* JsonFileAdapter.list_all: `[Memory.from_dict(v) for v in data.values()]`
JsonFile_list_all(doc) == [i \in DOMAIN doc |-> from_dict(doc[i][2])]

\* JsonFileAdapter.save: `data[memory.id] = memory.to_dict()`
JsonFile_save(doc, memory) == DocPut(doc, memory.id, to_dict(memory))

\* JsonFileAdapter.delete: `if memory_id not in data: return False`, `del data[memory_id]`
JsonFile_delete(doc, memory_id) == IF memory_id \in DocIds(doc) THEN DocDel(doc, memory_id) ELSE doc

JsonFile_deleted(doc, memory_id) == memory_id \in DocIds(doc)

\* ------------------------------------- one Store call over any of the adapters
\* the Store calls tried, with the arguments of each
NoOp ==
    [name |-> "none", id |-> 0, content |-> <<>>, creator |-> None, tags |-> NoTags,
     voter_id |-> None, direction |-> 1, n |-> 1, order_by |-> "votes", limit |-> NoLimit]

BackendOps ==
    { [NoOp EXCEPT !.name = "create", !.content = <<"a">>, !.tags = <<"py">>, !.voter_id = "v1"],
      [NoOp EXCEPT !.name = "create", !.content = <<"a">>],
      [NoOp EXCEPT !.name = "create", !.content = <<" ">>],
      [NoOp EXCEPT !.name = "unvote", !.id = 1, !.voter_id = "v1"],
      [NoOp EXCEPT !.name = "unvote", !.id = 2, !.voter_id = "v2"],
      [NoOp EXCEPT !.name = "get_memory", !.id = 1],
      [NoOp EXCEPT !.name = "list"],
      [NoOp EXCEPT !.name = "list", !.order_by = "created_at", !.limit = <<1>>, !.tags = <<"py">>],
      [NoOp EXCEPT !.name = "list", !.order_by = "id"] }
    \cup {[NoOp EXCEPT !.name = "vote", !.id = id, !.direction = a.d, !.voter_id = a.v, !.n = a.n] :
            id \in IdArgs,
            a \in { [d |-> 1, v |-> None, n |-> 2], [d |-> 0 - 1, v |-> "v1", n |-> 2],
                    [d |-> 1, v |-> "v2", n |-> 1], [d |-> 1, v |-> "v2", n |-> 0] }}
    \cup {[NoOp EXCEPT !.name = "remove", !.id = id] : id \in IdArgs}

\* what a Store call does given the memories its adapter's get and list_all yield (in
\* the adapter's order) and the flag its adapter's delete returns: the result, and the
\* adapter write it makes
StoreCall(view, deleted, op, id, clk) ==
    CASE op.name = "create" ->
           IF ContentEmpty(op.content)
           THEN [res |-> Raised("invalid-input"), write |-> "none", mem |-> NoMem]
           ELSE LET mem == NewMemory(id, op.content, op.creator, op.tags, op.voter_id, clk)
                IN  [res |-> Returned(mem), write |-> "save", mem |-> mem]
      [] op.name = "vote" ->
           LET out == VoteOutcome(view, op.id, op.direction, op.voter_id, op.n, clk, clk)
           IN  [res |-> Settled(out), write |-> IF out.err = "ok" THEN "save" ELSE "none",
                mem |-> out.mem]
      [] op.name = "unvote" ->
           LET out == UnvoteOutcome(view, op.id, op.voter_id, clk)
           IN  [res |-> Settled(out), write |-> IF out.save THEN "save" ELSE "none",
                mem |-> out.mem]
      [] op.name = "remove" ->
           [res |-> [NoCall EXCEPT !.err = "ok", !.flag = deleted], write |-> "delete",
            mem |-> NoMem]
      [] op.name = "get_memory" ->
           [res |-> Returned(AdapterGet(view, op.id)), write |-> "none", mem |-> NoMem]
      [] OTHER ->
           [res |-> IF op.order_by \notin _VALID_ORDER_BY THEN Raised("invalid-input")
                    ELSE [NoCall EXCEPT !.err = "ok",
                             !.list = ListOutcome(view, op.order_by, op.limit, op.tags)],
            write |-> "none", mem |-> NoMem]

\* the SQLite database
Db == [rows |-> rows, pending |-> pending]

\* cmd_serve has not been started
ServeIdle ==
    /\ line = None
    /\ lineno = 0
    /\ nonempty = 0
    /\ stdout = <<>>
    /\ spc = "idle"

BackendsInit ==
    /\ rows = <<>>
    /\ pending = [c \in Callers |-> NoTxn]
    /\ open = {}
    /\ jresult = NoCall
    /\ qresult = NoCall
    /\ caller = None
    /\ writer = None
    /\ called = NoOp
    /\ ServeIdle
    /\ saves = 0
    /\ afault = None

\* a Store instance is constructed over each backend: MemoryStore(adapter) keeps the
\* adapter, JsonFileAdapter(path) keeps the path, SqliteAdapter(path) connects and runs
\* CREATE TABLE IF NOT EXISTS
construct(c) ==
    /\ c \notin open
    /\ open' = open \cup {c}
    /\ pending' = [pending EXCEPT ![c] = NoTxn]
    /\ UNCHANGED <<rows, jresult, qresult, caller, writer, called>>
    /\ UNCHANGED <<svars, fvars, hvars, rvars, avars>>

\* the same Store call, made through instance c, over InMemoryAdapter, over
\* JsonFileAdapter and over SqliteAdapter, with the same generated id and clock reading
backends_call(c, op) ==
    /\ c \in open
    /\ LET m  == StoreCall(_data, op.id \in Ids(_data), op, nextId, clock)
           j  == StoreCall(JsonFile_list_all(JsonDoc), JsonFile_deleted(JsonDoc, op.id),
                           op, nextId, clock)
           q  == StoreCall(Sqlite_list_all(Db, c), Sqlite_deleted(Db, c, op.id),
                           op, nextId, clock)
           jd == CASE j.write = "save" -> JsonFile_save(JsonDoc, j.mem)
                   [] j.write = "delete" -> JsonFile_delete(JsonDoc, op.id)
                   [] OTHER -> JsonDoc
           qd == CASE q.write = "save" -> Sqlite_save(Db, c, q.mem)
                   [] q.write = "delete" -> Sqlite_delete(Db, c, op.id)
                   [] OTHER -> Db
           changes == m.write = "save" \/ (m.write = "delete" /\ op.id \in Ids(_data))
       IN  /\ changes => writes < MaxWrites
           /\ writes' = IF changes THEN writes + 1 ELSE writes
           /\ nextId' = IF op.name = "create" /\ m.write = "save" THEN nextId + 1 ELSE nextId
           /\ _data' = CASE m.write = "save" -> AdapterSave(_data, m.mem)
                          [] m.write = "delete" -> AdapterDelete(_data, op.id)
                          [] OTHER -> _data
           /\ result' = m.res
           /\ IF j.write = "save" \/ (j.write = "delete" /\ JsonFile_deleted(JsonDoc, op.id))
              THEN path' = 1 /\ inodes' = <<json_dump(jd)>>
              ELSE UNCHANGED <<path, inodes>>
           /\ jresult' = j.res
           /\ rows' = qd.rows
           /\ pending' = qd.pending
           /\ qresult' = q.res
           /\ writer' = IF changes THEN c ELSE writer
    /\ caller' = c
    /\ called' = op
    /\ UNCHANGED <<clock, removed, selfVoted, cast, pc, local, open>>
    /\ UNCHANGED <<flocks, fpc, frame, fresult, passed, calls>>
    /\ UNCHANGED <<hvars, rvars, avars>>

\* time passes between calls
backends_tick ==
    /\ clock + TickStep <= MaxClock
    /\ clock' = clock + TickStep
    /\ UNCHANGED <<_data, nextId, result, removed, selfVoted, cast, writes, pc, local>>
    /\ UNCHANGED <<fvars, hvars, bvars, rvars, avars>>

\* one Store instance per backend, every operation of the API
NextBackends ==
    \/ construct("c1")
    \/ \E op \in BackendOps : backends_call("c1", op)
    \/ backends_tick

\* the calls made when several Store instances share one file or one database
InstanceOps ==
    {op \in BackendOps :
        \/ op.name = "create" /\ op.voter_id = "v1"
        \/ op.name = "vote" /\ op.id = 1 /\ op.voter_id \in {None, "v1"}
        \/ op.name \in {"get_memory", "remove"} /\ op.id = 1
        \/ op.name = "list" /\ op.order_by = "votes"}

NextInstances ==
    \/ \E c \in Callers : construct(c)
    \/ \E c \in Callers, op \in InstanceOps : backends_call(c, op)
    \/ backends_tick

\* ------------------------------------------------------- cli.py: cmd_serve
\* JSON values as json.loads returns them: a dict with the keys it holds, or a
\* value of another type
JsonTypes == {"object", "array", "string", "number", "null"}

JObject(keys) == [type |-> "object", keys |-> keys, str |-> None]

JString(text) == [type |-> "string", keys |-> {}, str |-> text]

JOther(type) == [type |-> type, keys |-> {}, str |-> None]

\* a key that the request does not hold
Absent == [type |-> "absent", keys |-> {}, str |-> None]

\* the methods of the dispatch table and the params keys their lambdas subscript
Required ==
    [m \in {"tidbits.create", "tidbits.upvote", "tidbits.downvote", "tidbits.unvote",
            "tidbits.list", "tidbits.get_memories", "tidbits.remove",
            "tidbits.create_voter_id"} |->
        CASE m = "tidbits.create" -> {"content"}
          [] m \in {"tidbits.upvote", "tidbits.downvote", "tidbits.remove"} -> {"memory_id"}
          [] m = "tidbits.unvote" -> {"memory_id", "voter_id"}
          [] OTHER -> {}]

\* the lambdas that call p.get or p[...]; tidbits.create_voter_id ignores p
UsesParams(m) == m # "tidbits.create_voter_id"

MethodArgs ==
    {Absent, JString("nope"), JOther("null"), JOther("array"),
     JString("tidbits.create"), JString("tidbits.unvote"), JString("tidbits.list"),
     JString("tidbits.create_voter_id")}

ParamsArgs ==
    {Absent, JObject({}), JObject({"content"}), JObject({"memory_id", "voter_id"}),
     JOther("array"), JOther("null")}

\* the lines of stdin: blank, not JSON, JSON that is not an object, a request
Lines ==
    {[text |-> "blank", value |-> Absent, method |-> Absent, params |-> Absent],
     [text |-> "malformed", value |-> Absent, method |-> Absent, params |-> Absent]}
    \cup {[text |-> "json", value |-> JOther(t), method |-> Absent, params |-> Absent] :
            t \in JsonTypes \ {"object"}}
    \cup {[text |-> "json", value |-> JObject({}), method |-> m, params |-> q] :
            m \in MethodArgs, q \in ParamsArgs}

\* what a call of a tool function ends with: a result, or one of the exceptions
\* that the except clauses of cmd_serve tell apart
HandlerOutcomes ==
    {"result", "DuplicateVoteError", "RateLimitError", "MemoryNotFoundError", "Exception"}

\* request.get(key, default): AttributeError unless the request is a dict
RequestGet(request, field, default) ==
    IF request.type # "object" THEN [raised |-> TRUE, value |-> default]
    ELSE IF field.type = "absent" THEN [raised |-> FALSE, value |-> default]
    ELSE [raised |-> FALSE, value |-> field]

\* dispatch.get(method): TypeError for a key that cannot be hashed
Unhashable(value) == value.type \in {"array", "object"}

DispatchGet(method) ==
    IF method.type = "string" /\ method.str \in DOMAIN Required THEN method.str ELSE None

\* handler(params): the lambda subscripts p and calls p.get before the tool runs
LambdaRaises(m, p) ==
    /\ UsesParams(m)
    /\ \/ p.type # "object"
       \/ ~(Required[m] \subseteq p.keys)

\* cmd_serve up to the loop: the store and the dispatch table are built
serve_start ==
    /\ spc = "idle"
    /\ spc' = "reading"
    /\ UNCHANGED <<line, lineno, nonempty, stdout>>
    /\ UNCHANGED <<svars, fvars, hvars, bvars, avars>>

\* one iteration of `for line in sys.stdin`
serve_line(l, outcome) ==
    /\ spc = "reading"
    /\ lineno < MaxLines
    /\ line' = l
    /\ lineno' = lineno + 1
    /\ nonempty' = IF l.text = "blank" THEN nonempty ELSE nonempty + 1
    /\ LET method == RequestGet(l.value, l.method, JString(""))
           params == RequestGet(l.value, l.params, JObject({}))
           handler == DispatchGet(method.value)
       IN  CASE l.text = "blank" ->
                    UNCHANGED <<stdout, spc>>
             [] l.text = "malformed" ->
                    /\ stdout' = Append(stdout, "error")
                    /\ UNCHANGED spc
             [] l.text = "json" /\ (method.raised \/ params.raised) ->
                    /\ spc' = "raised"
                    /\ UNCHANGED stdout
             [] l.text = "json" /\ ~method.raised /\ ~params.raised
                               /\ Unhashable(method.value) ->
                    /\ spc' = "raised"
                    /\ UNCHANGED stdout
             [] OTHER ->
                    /\ stdout' = Append(stdout,
                           IF handler = None THEN "error"
                           ELSE IF LambdaRaises(handler, params.value) THEN "error"
                           ELSE IF outcome = "result" THEN "result"
                           ELSE "error")
                    /\ UNCHANGED spc
    /\ UNCHANGED <<svars, fvars, hvars, bvars, avars>>

\* stdin is at its end: the for loop and cmd_serve return
serve_eof ==
    /\ spc = "reading"
    /\ spc' = "done"
    /\ UNCHANGED <<line, lineno, nonempty, stdout>>
    /\ UNCHANGED <<svars, fvars, hvars, bvars, avars>>

NextServe ==
    \/ serve_start
    \/ \E l \in Lines, outcome \in HandlerOutcomes : serve_line(l, outcome)
    \/ serve_eof

\* ------------------------------------------------------- adapter faults
\* the exceptions an adapter call can raise: disk full, lock not acquired,
\* database unavailable
Faults == {"OSError", "sqlite3.OperationalError"}

FaultArgs == Faults \cup {None}

\* the call fails with the fault the adapter raised
StorageFault(fault) == [NoCall EXCEPT !.err = "storage", !.text = fault]

\* a Store that catches the fault of save and saves again
StoreSave_Retry(data, mem, fault) ==
    [data |-> AdapterSave(data, mem), raised |-> None, saves |-> 2]

\* self._adapter.save(mem): one call, its exception is not caught; a save that
\* fails changes nothing
StoreSave(data, mem, fault) ==
    [data |-> IF fault = None THEN AdapterSave(data, mem) ELSE data,
     raised |-> fault, saves |-> 1]

\* the Store calls that read the adapter (get, list_all, delete) before they write,
\* once their arguments have passed validation
ReadsAdapter(op) ==
    \/ op.name \in {"unvote", "get_memory", "remove"}
    \/ op.name = "vote" /\ op.n >= 1
    \/ op.name = "list" /\ op.order_by \in _VALID_ORDER_BY

\* one Store call over an adapter whose read raises rfault and whose save raises
\* sfault (None: the call works)
faulty_call(op, rfault, sfault) ==
    /\ LET m == StoreCall(_data, op.id \in Ids(_data), op, nextId, clock)
           readFails == ReadsAdapter(op) /\ rfault # None
           saved == StoreSave(_data, m.mem, sfault)
           changes == /\ ~readFails
                      /\ \/ m.write = "save" /\ saved.raised = None
                         \/ m.write = "delete" /\ op.id \in Ids(_data)
       IN  /\ changes => writes < MaxWrites
           /\ writes' = IF changes THEN writes + 1 ELSE writes
           /\ nextId' = IF op.name = "create" /\ changes THEN nextId + 1 ELSE nextId
           /\ _data' = CASE readFails -> _data
                         [] m.write = "save" -> saved.data
                         [] m.write = "delete" -> AdapterDelete(_data, op.id)
                         [] OTHER -> _data
           /\ result' = CASE readFails -> StorageFault(rfault)
                          [] m.write = "save" /\ saved.raised # None -> StorageFault(saved.raised)
                          [] OTHER -> m.res
           /\ saves' = IF ~readFails /\ m.write = "save" THEN saved.saves ELSE 0
           /\ afault' = CASE readFails -> rfault
                         [] m.write = "save" -> sfault
                         [] OTHER -> None
    /\ UNCHANGED <<clock, removed, selfVoted, cast, pc, local>>
    /\ UNCHANGED <<fvars, hvars, bvars, rvars>>

\* the calls made over a failing adapter
FaultOps ==
    {op \in BackendOps :
        \/ op.name = "create"
        \/ op.name \in {"vote", "unvote", "get_memory", "remove"} /\ op.id = 1
        \/ op.name = "list" /\ op.tags = NoTags}

NextFault ==
    \/ \E op \in FaultOps, rfault, sfault \in FaultArgs : faulty_call(op, rfault, sfault)
    \/ Tick

\* ------------------------------------------- the adapters called directly
\* JsonFileAdapter.get: `raw = data.get(memory_id)`,
\* `return Memory.from_dict(raw) if raw else None`
JsonFile_get(doc, memory_id) ==
    LET raw == IF memory_id \in DocIds(doc) THEN doc[DocIndex(doc, memory_id)][2] ELSE <<>>
    IN  IF raw # <<>> THEN from_dict(raw) ELSE NoMem

\* SqliteAdapter.get: `SELECT * FROM memories WHERE id = ?`, `cur.fetchone()`,
\* `return self._row_to_memory(row) if row else None`
Sqlite_get(db, c, memory_id) ==
    LET table == ConnTable(db, c)
    IN  IF \E i \in DOMAIN table : table[i][1] = memory_id
        THEN _row_to_memory(table[CHOOSE i \in DOMAIN table : table[i][1] = memory_id])
        ELSE NoMem

\* the memories handed to save: two ids, and under each id memories that differ in
\* votes, created_at, creator and voters
SaveMems ==
    { [Memory(id, <<"a">>, votes, created_at, isoformat(30), creator, <<>>)
          EXCEPT !.voters = voters] :
      id \in IdArgs, votes \in {1, 3}, created_at \in {isoformat(0), isoformat(30)},
      creator \in {None, "bot"},
      voters \in {NoVoters, [v \in {"v1"} |-> VoteRecord(1, isoformat(30))]} }

\* adapter.save(memory) on the InMemoryAdapter, the JsonFileAdapter and the
\* SqliteAdapter; the caller keeps the memory it passed
Adapter_save(c, memory) ==
    /\ c \in open
    /\ writes < MaxWrites
    /\ writes' = writes + 1
    /\ _data' = AdapterSave(_data, memory)
    /\ path' = 1
    /\ inodes' = <<json_dump(JsonFile_save(JsonDoc, memory))>>
    /\ LET qd == Sqlite_save(Db, c, memory)
       IN  rows' = qd.rows /\ pending' = qd.pending
    /\ result' = [NoCall EXCEPT !.err = "ok"]
    /\ jresult' = [NoCall EXCEPT !.err = "ok"]
    /\ qresult' = [NoCall EXCEPT !.err = "ok"]
    /\ local' = [local EXCEPT ![c] = memory]
    /\ caller' = c
    /\ writer' = c
    /\ called' = [NoOp EXCEPT !.name = "save", !.id = memory.id]
    /\ UNCHANGED <<clock, nextId, removed, selfVoted, cast, pc, open>>
    /\ UNCHANGED <<flocks, fpc, frame, fresult, passed, calls>>
    /\ UNCHANGED <<hvars, rvars, avars>>

\* adapter.get(memory_id) on each of the three adapters
Adapter_get(c, memory_id) ==
    /\ c \in open
    /\ result' = Returned(AdapterGet(_data, memory_id))
    /\ jresult' = Returned(JsonFile_get(JsonDoc, memory_id))
    /\ qresult' = Returned(Sqlite_get(Db, c, memory_id))
    /\ caller' = c
    /\ called' = [NoOp EXCEPT !.name = "get", !.id = memory_id]
    /\ UNCHANGED <<_data, clock, nextId, removed, selfVoted, cast, writes, pc, local>>
    /\ UNCHANGED <<fvars, hvars, rvars, avars>>
    /\ UNCHANGED <<rows, pending, open, writer>>

\* adapter.list_all() on each of the three adapters
Adapter_list_all(c) ==
    /\ c \in open
    /\ result' = [NoCall EXCEPT !.err = "ok", !.list = AdapterListAll(_data)]
    /\ jresult' = [NoCall EXCEPT !.err = "ok", !.list = JsonFile_list_all(JsonDoc)]
    /\ qresult' = [NoCall EXCEPT !.err = "ok", !.list = Sqlite_list_all(Db, c)]
    /\ caller' = c
    /\ called' = [NoOp EXCEPT !.name = "list_all"]
    /\ UNCHANGED <<_data, clock, nextId, removed, selfVoted, cast, writes, pc, local>>
    /\ UNCHANGED <<fvars, hvars, rvars, avars>>
    /\ UNCHANGED <<rows, pending, open, writer>>

NextUpsert ==
    \/ construct("c1")
    \/ \E memory \in SaveMems : Adapter_save("c1", memory)
    \/ \E memory_id \in IdArgs : Adapter_get("c1", memory_id)
    \/ Adapter_list_all("c1")

\* ------------------------------------------- votes on two stored memories
\* two memories created at the same instant, the second by voter v1 or by nobody;
\* the writes counted are those of the votes that follow
CooldownInit ==
    /\ \E voter_id \in {None, "v1"} :
          /\ _data = << NewMemory(1, <<"a">>, None, NoTags, None, 0),
                        NewMemory(2, <<"b">>, None, NoTags, voter_id, 0) >>
          /\ selfVoted = IF Truthy(voter_id) THEN {2} ELSE {}
          /\ cast = IF Truthy(voter_id) THEN {<<2, voter_id>>} ELSE {}
    /\ clock = 0
    /\ nextId = 3
    /\ result = NoCall
    /\ removed = {}
    /\ writes = 0
    /\ pc = [c \in Callers |-> "idle"]
    /\ local = [c \in Callers |-> NoMem]
    /\ FileInit
    /\ HeapInit
    /\ BackendsInit

\* anonymous votes and votes by v1, of magnitude 1, and unvotes by v1, on either
\* memory, with time passing between the calls
NextCooldown ==
    \/ Tick
    \/ \E id \in IdArgs, voter_id \in {None, "v1"} : upvote_memory("c1", id, voter_id, 1)
    \/ \E id \in IdArgs, voter_id \in {None, "v1"} : downvote_memory("c1", id, voter_id, 1)
    \/ \E id \in IdArgs : unvote_memory("c1", id, "v1")

SpecCooldown == CooldownInit /\ [][NextCooldown]_vars

Init == StoreInit /\ FileInit /\ HeapInit /\ BackendsInit

\* the three adapters, each written and read through its own interface
SpecUpsert == Init /\ [][NextUpsert]_vars

SpecFault == Init /\ [][NextFault]_vars

SpecServe == Init /\ [][NextServe]_vars

SpecBackends == Init /\ [][NextBackends]_vars

SpecInstances == Init /\ [][NextInstances]_vars

SpecHeap == Init /\ [][NextHeap]_vars

SpecFile == Init /\ [][NextFile]_vars

\* the document a file left by an earlier run of the program holds
ExistingDoc == LET memory == CHOOSE m \in FileMems : m.id = 2
               IN  DocPut(EmptyDoc, memory.id, to_dict(memory))

\* JsonFileAdapter(path) constructed on a path where a file exists already
FileInitExisting ==
    /\ path = 1
    /\ inodes = <<json_dump(ExistingDoc)>>
    /\ flocks = {}
    /\ fpc = [p \in Procs |-> "idle"]
    /\ frame = [p \in Procs |-> NoFrame]
    /\ fresult = [p \in Procs |-> NoFileResult]
    /\ passed = {ExistingDoc}
    /\ calls = 0

InitFair == StoreInit /\ (FileInit \/ FileInitExisting) /\ HeapInit /\ BackendsInit

\* the calls under the fair scheduler: fewer of them, all about the memory of the
\* existing document (whether a call ends does not depend on the memory it names)
NextFileFair ==
    /\ NextFile
    /\ calls' # calls => calls < MaxFairCalls
    /\ \A p \in Procs : frame'[p].id \in {0} \cup DocIds(ExistingDoc)

\* the scheduler lets every running call take its next step
SpecFileFair == InitFair /\ [][NextFileFair]_vars /\ \A p \in Procs : WF_vars(Step(p))

Next ==
    \/ Tick
    \/ \E c \in {"c1"}, a \in CreateArgs, voter_id \in VoterArgs :
          create_memory(c, a.content, a.creator, a.tags, voter_id)
    \/ \E c \in {"c1"}, id \in IdArgs, voter_id \in VoterArgs, n \in NArgs :
          upvote_memory(c, id, voter_id, n)
    \/ \E c \in {"c1"}, id \in IdArgs, voter_id \in VoterArgs, n \in NArgs :
          downvote_memory(c, id, voter_id, n)
    \/ \E c \in {"c1"}, id \in IdArgs, voter_id \in VoterArgs :
          unvote_memory(c, id, voter_id)
    \/ \E c \in {"c1"}, id \in IdArgs : remove_memory(c, id)
    \/ \E c \in {"c1"}, id \in IdArgs : get_memory(c, id)
    \/ \E c \in {"c1"}, id \in IdArgs, a \in UpdateArgs :
          update_memory(c, id, a.content, a.tags)
    \/ \E c \in {"c1"}, a \in ListArgs : list_memories(c, a.order_by, a.limit, a.tags)

Spec == Init /\ [][Next]_vars

\* ------------------------------ list_memories over a store of several memories
\* the (votes, tags) of the memories that create and votes have left in the store
StoredKinds ==
    { [votes |-> 1, tags |-> <<>>],
      [votes |-> 3, tags |-> <<"py">>],
      [votes |-> 3, tags |-> <<"rs">>],
      [votes |-> 5, tags |-> <<"go", "py">>],
      [votes |-> 0 - 1, tags |-> <<"go">>] }

\* the clock readings at which they were created
StoredTimes == {0, 30}

\* _data after creates, votes, unvotes and removes: ids in creation order, created_at
\* not decreasing along it
StoredData ==
    UNION { { [i \in 1 .. n |->
                 Memory(i, <<"a">>, f[i][1].votes, isoformat(f[i][2]), isoformat(f[i][2]),
                        None, f[i][1].tags)] :
              f \in { g \in [1 .. n -> StoredKinds \X StoredTimes] :
                         \A i \in 1 .. n, j \in 1 .. n : i < j => g[i][2] <= g[j][2] } } :
            n \in 0 .. MaxStored }

\* the (order_by, limit, tags) arguments tried on such a store
SortArgs ==
    [order_by : {"votes", "created_at"},
     limit    : {NoLimit, <<0>>, <<2>>, <<MaxStored + 1>>},
     tags     : {NoTags, <<>>, <<"py">>, <<"rs", "py">>, <<"c">>}]

ListInit ==
    /\ _data \in StoredData
    /\ clock = MaxClock
    /\ nextId = Len(_data) + 1
    /\ result = NoCall
    /\ removed = {}
    /\ selfVoted = {}
    /\ cast = {}
    /\ writes = 0
    /\ pc = [c \in Callers |-> "idle"]
    /\ local = [c \in Callers |-> NoMem]
    /\ FileInit
    /\ HeapInit
    /\ BackendsInit

NextList ==
    \E a \in SortArgs : list_memories("c1", a.order_by, a.limit, a.tags)

SpecList == ListInit /\ [][NextList]_vars

\* ------------------------------------------------------------ get_memories
\* the values str(uuid.uuid4()) may give create_voter_id
NewVoterIds == {"u1", "u2"}

\* `if not voter_id: generated_voter_id = self.create_voter_id()`
GeneratedVoterId(voter_id, uuid) == IF voter_id = None \/ voter_id = "" THEN uuid ELSE None

\* an item with the vote count of the memory in it
ProjectMemory_Votes(m) ==
    << <<"id", m.id>>, <<"content", m.content>>, <<"tags", m.tags>>, <<"votes", m.votes>> >>

\* `{"id": m.id, "content": m.content, "tags": m.tags}`
ProjectMemory(m) == << <<"id", m.id>>, <<"content", m.content>>, <<"tags", m.tags>> >>

\* a shuffle that loses the last element
Shuffled_Drop(memories, perm) ==
    [i \in 1 .. (Len(memories) - 1) |-> memories[perm[i]]]

\* random.shuffle(memories): the list in the order that the permutation gives
Shuffled(memories, perm) == [i \in DOMAIN memories |-> memories[perm[i]]]

\* `result = {"memories": items}`, `if generated_voter_id: result["voter_id"] = ...`
Response(items, generated_voter_id) ==
    IF generated_voter_id # None
    THEN << <<"memories", items>>, <<"voter_id", generated_voter_id>> >>
    ELSE << <<"memories", items>> >>

\* MemoryStore.get_memories: the dict it returns
GetMemoriesOutcome(data, voter_id, uuid, perm) ==
    LET memories == Shuffled(AdapterListAll(data), perm)
        items    == [i \in DOMAIN memories |-> ProjectMemory(memories[i])]
    IN  Response(items, GeneratedVoterId(voter_id, uuid))

get_memories(c, voter_id) ==
    /\ pc[c] = "idle"
    /\ \E uuid \in NewVoterIds, perm \in Permutations(DOMAIN _data) :
          result' = [NoCall EXCEPT !.err = "ok",
                                   !.dict = GetMemoriesOutcome(_data, voter_id, uuid, perm)]
    /\ UNCHANGED <<_data, clock, nextId, removed, selfVoted, cast, writes, pc, local>>
    /\ UNCHANGED <<fvars, hvars, bvars, rvars, avars>>

NextGet ==
    \E voter_id \in VoterArgs : get_memories("c1", voter_id)

\* the stores get_memories is tried on: memories created together, with few votes
ShownData ==
    {d \in StoredData :
        \A i \in DOMAIN d : d[i].created_at = isoformat(0) /\ d[i].votes \in {1, 3}}

GetInit == ListInit /\ _data \in ShownData

SpecGet == GetInit /\ [][NextGet]_vars

\* ------------------------------------------------ to_dict and from_dict
\* the vote values of the records tried: a downvote of 2, the creation vote, an upvote of 3
RecordValues == {0 - 2, 1, 3}

\* the voters maps tried: no voter, one, two
VoterMaps ==
    UNION { [S -> {VoteRecord(v, isoformat(30)) : v \in RecordValues}] : S \in SUBSET Voters }

\* the memories tried
RoundMems ==
    { [id |-> 1, content |-> content, votes |-> votes, created_at |-> isoformat(0),
       last_updated |-> last_updated, creator |-> creator, tags |-> tags,
       voters |-> voters, last_anon_vote_at |-> last_anon] :
      content \in {<<>>, <<"a">>}, votes \in {0 - 2, 1, 4},
      last_updated \in {isoformat(0), isoformat(30)}, creator \in {None, "bot"},
      tags \in {<<>>, <<"py">>, <<"py", "go">>}, voters \in VoterMaps,
      last_anon \in {NoneTs, isoformat(30)} }

RoundInit ==
    /\ _data = <<>>
    /\ clock = 0
    /\ nextId = 1
    /\ result = NoCall
    /\ removed = {}
    /\ selfVoted = {}
    /\ cast = {}
    /\ writes = 0
    /\ pc = [c \in Callers |-> "idle"]
    /\ \E m \in RoundMems : local = [c \in Callers |-> IF c = "c1" THEN m ELSE NoMem]
    /\ FileInit
    /\ HeapInit
    /\ BackendsInit

\* m.to_dict()
Memory_to_dict(c) ==
    /\ result' = [NoCall EXCEPT !.err = "ok", !.dict = to_dict(local[c])]
    /\ UNCHANGED <<_data, clock, nextId, removed, selfVoted, cast, writes, pc, local>>
    /\ UNCHANGED <<fvars, hvars, bvars, rvars, avars>>

\* Memory.from_dict(m.to_dict())
Memory_roundtrip(c) ==
    /\ result' = Returned(from_dict(to_dict(local[c])))
    /\ UNCHANGED <<_data, clock, nextId, removed, selfVoted, cast, writes, pc, local>>
    /\ UNCHANGED <<fvars, hvars, bvars, rvars, avars>>

\* VoteRecord.from_dict(r.to_dict()) for the record r of a voter, shown as its dict
VoteRecord_roundtrip(c, v) ==
    /\ v \in DOMAIN local[c].voters
    /\ result' = [NoCall EXCEPT
                     !.err = "ok",
                     !.dict = VoteRecord_to_dict(
                                  VoteRecord_from_dict(VoteRecord_to_dict(local[c].voters[v])))]
    /\ UNCHANGED <<_data, clock, nextId, removed, selfVoted, cast, writes, pc, local>>
    /\ UNCHANGED <<fvars, hvars, bvars, rvars, avars>>

NextRound ==
    \/ Memory_to_dict("c1")
    \/ Memory_roundtrip("c1")
    \/ \E v \in Voters : VoteRecord_roundtrip("c1", v)

SpecRound == RoundInit /\ [][NextRound]_vars

\* ------------------------------------------------- the calls that only read
\* MemoryStore.create_voter_id: `return str(uuid.uuid4())`
create_voter_id(c) ==
    /\ pc[c] = "idle"
    /\ \E uuid \in NewVoterIds : result' = [NoCall EXCEPT !.err = "ok", !.text = uuid]
    /\ UNCHANGED <<_data, clock, nextId, removed, selfVoted, cast, writes, pc, local>>
    /\ UNCHANGED <<fvars, hvars, bvars, rvars, avars>>

\* the (order_by, limit, tags) arguments tried among the reading calls
ReadArgs ==
    [order_by : {"votes", "created_at"}, limit : {NoLimit, <<2>>}, tags : {NoTags, <<"py">>}]

NextRead ==
    \/ \E voter_id \in VoterArgs : get_memories("c1", voter_id)
    \/ \E a \in ReadArgs : list_memories("c1", a.order_by, a.limit, a.tags)
    \/ \E id \in 1 .. MaxStored : get_memory("c1", id)
    \/ create_voter_id("c1")

SpecRead == GetInit /\ [][NextRead]_vars

\* ------------------------------------------- several callers, one adapter
\* MemoryStore._vote from its entry to just before self._adapter.save(mem): a raised
\* condition ends the call, otherwise the caller holds the mutated object
vote_read(c, id, direction, voter_id, n) ==
    /\ pc[c] = "idle"
    /\ \E d \in Latencies :
          /\ clock + d <= MaxClock
          /\ d = 0 \/ ReadsClockTwice(_data, id, voter_id, n)
          /\ LET out == VoteOutcome(_data, id, direction, voter_id, n, clock, clock + d)
             IN  IF out.err = "ok"
                 THEN /\ CanWrite
                      /\ pc' = [pc EXCEPT ![c] = "save"]
                      /\ local' = [local EXCEPT ![c] = out.mem]
                      /\ UNCHANGED result
                 ELSE /\ result' = Raised(out.err)
                      /\ UNCHANGED <<pc, local>>
          /\ clock' = clock + d
    /\ UNCHANGED <<_data, nextId, removed, selfVoted, cast, writes>>
    /\ UNCHANGED <<fvars, hvars, bvars, rvars, avars>>

\* MemoryStore.unvote_memory from its entry to just before self._adapter.save(mem)
unvote_read(c, id, voter_id) ==
    /\ pc[c] = "idle"
    /\ LET out == UnvoteOutcome(_data, id, voter_id, clock)
       IN  IF out.save
           THEN /\ CanWrite
                /\ pc' = [pc EXCEPT ![c] = "save"]
                /\ local' = [local EXCEPT ![c] = out.mem]
                /\ UNCHANGED result
           ELSE /\ result' = Settled(out)
                /\ UNCHANGED <<pc, local>>
    /\ UNCHANGED <<_data, clock, nextId, removed, selfVoted, cast, writes>>
    /\ UNCHANGED <<fvars, hvars, bvars, rvars, avars>>

\* `self._adapter.save(mem); return mem`, the last two lines of _vote and unvote_memory
save_return(c) ==
    /\ pc[c] = "save"
    /\ _data' = AdapterSave(_data, local[c])
    /\ result' = Returned(local[c])
    /\ cast' = cast \cup Recorded(local[c])
    /\ writes' = writes + 1
    /\ pc' = [pc EXCEPT ![c] = "idle"]
    /\ local' = [local EXCEPT ![c] = NoMem]
    /\ UNCHANGED <<clock, nextId, removed, selfVoted>>
    /\ UNCHANGED <<fvars, hvars, bvars, rvars, avars>>

\* the callers' steps interleave; time passes only inside _vote, between its two
\* clock readings
NextConc ==
    \/ \E c \in Callers, a \in CreateArgs, voter_id \in VoterArgs :
          create_memory(c, a.content, a.creator, a.tags, voter_id)
    \/ \E c \in Callers, id \in IdArgs, voter_id \in VoterArgs, n \in NArgs :
          vote_read(c, id, 1, voter_id, n)
    \/ \E c \in Callers, id \in IdArgs, voter_id \in VoterArgs, n \in NArgs :
          vote_read(c, id, -1, voter_id, n)
    \/ \E c \in Callers, id \in IdArgs, voter_id \in VoterArgs : unvote_read(c, id, voter_id)
    \/ \E c \in Callers : save_return(c)
    \/ \E c \in Callers, id \in IdArgs : remove_memory(c, id)

SpecConc == Init /\ [][NextConc]_vars

\* ================================================================ properties
Stored(id) == id \in Ids(_data)

Mem(id) == AdapterGet(_data, id)

MemNext(id) == AdapterGet(_data', id)

\* the voters map without its timestamps: voter id -> recorded value
Values(mem) == [v \in DOMAIN mem.voters |-> mem.voters[v].value]

\* the voters map in which each of the given voters has the value +1
Plus1(voterSet) == [v \in voterSet |-> 1]

Directions == {1, -1}

Anonymous == {None, ""}

\* empty or whitespace-only text
Blank(content) == \A i \in DOMAIN content : content[i] = " "

\* a step of the one caller of Spec that is the named call
IsVote(id, direction, voter_id, n) ==
    IF direction = 1 THEN upvote_memory("c1", id, voter_id, n)
    ELSE downvote_memory("c1", id, voter_id, n)

IsUnvote(id, voter_id) == unvote_memory("c1", id, voter_id)

\* the call fails with err and the storage is as before
Rejected(err) == result'.err = err /\ _data' = _data /\ nextId' = nextId

\* a successful call has returned memory id as it is now stored, with these votes
\* and voters
Gives(id, votes, values) ==
    /\ result' = Returned(MemNext(id))
    /\ MemNext(id).votes = votes
    /\ Values(MemNext(id)) = values

\* The properties of a call are stated in each reachable state about every step the
\* call can take from it: ~ENABLED (call /\ ~post) says that no step of the call
\* ends otherwise than in post.

\* C1 (as amended). Dedupe: while voter v has an entry in the voters map of the stored
\* memory m, every upvote or downvote call with the same (m, v) and a magnitude
\* n >= 1 fails with duplicate-vote and leaves the storage, so m's votes and
\* voters, as it was.
C1_Dedupe ==
    \A id \in IdArgs : Stored(id) =>
        \A v \in Voters : v \in DOMAIN Mem(id).voters =>
            \A dir \in Directions, n \in NArgs : n >= 1 =>
                ~ENABLED (IsVote(id, dir, v, n) /\ ~Rejected("duplicate-vote"))

\* C1 witness: a vote has just been rejected as duplicate on a memory that records votes
C1_Witness ==
    /\ result.err = "duplicate-vote"
    /\ \E i \in DOMAIN _data : DOMAIN _data[i].voters # {}

\* C1 as stated: once a vote (or the creation vote) by v on m has been recorded, every
\* later vote call with the same (m, v) fails with duplicate-vote. Read with m still
\* stored and a valid magnitude, it fails after unvote(m, v): the next vote succeeds.
C1_OnceVotedEveryLaterVoteFails ==
    \A id \in IdArgs : Stored(id) =>
        \A v \in Voters : <<id, v>> \in cast =>
            \A dir \in Directions, n \in NArgs : n >= 1 =>
                ~ENABLED (IsVote(id, dir, v, n) /\ ~Rejected("duplicate-vote"))

\* what the creation of memory id contributes to votes besides its voters entry
Base(id) == IF id \in selfVoted THEN 0 ELSE 1

\* C2 (as amended). Vote conservation: with no anonymous vote cast on it, a stored
\* memory created without a voter_id has votes = 1 + the sum of its voters' values,
\* and one created with a voter_id has votes = the sum of its voters' values (the
\* creation vote is the creator's +1 entry and is counted once).
C2_Conservation ==
    \A i \in DOMAIN _data :
        _data[i].last_anon_vote_at = NoneTs
        => _data[i].votes = Base(_data[i].id) + SumVoters(_data[i].voters)

\* C2 witness: a memory created with a voter_id that a second voter has voted on
C2_Witness ==
    \E i \in DOMAIN _data :
        /\ _data[i].id \in selfVoted
        /\ Cardinality(DOMAIN _data[i].voters) = 2
        /\ _data[i].last_anon_vote_at = NoneTs
        /\ _data[i].votes # 2

\* C2 as stated: votes = 1 + the sum of the voters' values, whether or not the
\* memory was created with a voter_id
C2_VotesIsOnePlusSum ==
    \A i \in DOMAIN _data :
        _data[i].last_anon_vote_at = NoneTs
        => _data[i].votes = 1 + SumVoters(_data[i].voters)

\* what a successful create_memory step with voter_id v leaves
Created(v) ==
    LET mem == result'.ret
    IN  /\ ~Stored(mem.id)
        /\ Ids(_data') = Ids(_data) \cup {mem.id}
        /\ MemNext(mem.id) = mem
        /\ mem.votes = 1
        /\ mem.created_at = mem.last_updated
        /\ mem.created_at = isoformat(clock)
        /\ Values(mem) = IF Truthy(v) THEN Plus1({v}) ELSE Plus1({})

\* C3. Create postcondition: a successful create(content, voter_id=v) stores a new
\* memory with votes = 1 and created_at = last_updated; with a (non-empty) v its
\* voters map is exactly {v: +1}, otherwise voters is empty. From the state that
\* create(voter_id=v) leaves, an upvote by a second voter w gives votes = 2; from
\* there an upvote by v fails as duplicate with votes still 2, and unvote of w
\* gives votes = 1 with voters = {v: +1}.
C3_CreateScenario ==
    /\ \A a \in CreateArgs, v \in VoterArgs :
          ~ENABLED (/\ create_memory("c1", a.content, a.creator, a.tags, v)
                    /\ result'.err = "ok"
                    /\ ~Created(v))
    /\ \A id \in IdArgs : Stored(id) =>
          \A v \in Voters : \A w \in Voters \ {v} :
              /\ (Mem(id).votes = 1 /\ Values(Mem(id)) = Plus1({v}))
                 => ~ENABLED (/\ upvote_memory("c1", id, w, 1)
                              /\ ~Gives(id, 2, Plus1({v, w})))
              /\ (Mem(id).votes = 2 /\ Values(Mem(id)) = Plus1({v, w}))
                 => /\ ~ENABLED (/\ upvote_memory("c1", id, v, 1)
                                 /\ ~(Rejected("duplicate-vote") /\ MemNext(id).votes = 2))
                    /\ ~ENABLED (/\ unvote_memory("c1", id, w)
                                 /\ ~Gives(id, 1, Plus1({v})))

\* C3 witness: the end of the scenario: a memory created with voter_id v1, voted on
\* by v2 and unvoted by v2, is returned with votes = 1 and voters = {v1: +1}
C3_Witness ==
    \E i \in DOMAIN _data :
        /\ _data[i].id \in selfVoted
        /\ {<<_data[i].id, "v1">>, <<_data[i].id, "v2">>} \subseteq cast
        /\ _data[i].votes = 1
        /\ Values(_data[i]) = Plus1({"v1"})
        /\ _data[i].last_anon_vote_at = NoneTs
        /\ result = Returned(_data[i])

\* C4. Unvote undoes exactly one recorded vote: when voter v has a recorded vote of
\* value x on the stored memory m, unvote(m, v) removes v's entry, decreases votes by
\* exactly x and leaves every other voter's entry as it was; an identified vote
\* records direction * n under v and adds it to votes; hence a vote followed at once
\* by unvote of the same voter restores votes and voters.
C4_UnvoteUndoesOneVote ==
    \A id \in IdArgs : Stored(id) =>
        /\ \A v \in DOMAIN Mem(id).voters :
              ~ENABLED (/\ IsUnvote(id, v)
                        /\ ~(/\ result' = Returned(MemNext(id))
                             /\ MemNext(id).votes = Mem(id).votes - Mem(id).voters[v].value
                             /\ DOMAIN MemNext(id).voters = DOMAIN Mem(id).voters \ {v}
                             /\ \A w \in DOMAIN MemNext(id).voters :
                                    MemNext(id).voters[w] = Mem(id).voters[w]))
        /\ \A v \in Voters \ DOMAIN Mem(id).voters, dir \in Directions, n \in NArgs :
              /\ ~ENABLED (/\ IsVote(id, dir, v, n)
                           /\ result'.err = "ok"
                           /\ ~(/\ MemNext(id).votes = Mem(id).votes + dir * n
                                /\ DOMAIN MemNext(id).voters = DOMAIN Mem(id).voters \cup {v}
                                /\ MemNext(id).voters[v].value = dir * n
                                /\ \A w \in DOMAIN Mem(id).voters :
                                       MemNext(id).voters[w] = Mem(id).voters[w]))
              /\ n >= 1 =>
                    LET voted == VoteOutcome(_data, id, dir, v, n, clock, clock).mem
                        back  == UnvoteOutcome(AdapterSave(_data, voted), id, v, clock).mem
                    IN  /\ back.votes = Mem(id).votes
                        /\ back.voters = Mem(id).voters

\* C4 witness: the creator's implicit vote has been unvoted, which brought votes to 0
C4_Witness ==
    \E i \in DOMAIN _data :
        /\ _data[i].id \in selfVoted
        /\ DOMAIN _data[i].voters = {}
        /\ _data[i].last_anon_vote_at = NoneTs
        /\ _data[i].votes = 0
        /\ result = Returned(_data[i])

\* C5. Idempotent unvote: unvote(m, v) on a stored memory m for which v has no
\* recorded vote succeeds, returns the memory as stored and leaves the storage (so
\* every field of m) unchanged; the call can therefore be repeated with the same result.
C5_UnvoteNoRecord ==
    \A id \in IdArgs : Stored(id) =>
        \A v \in VoterArgs \ DOMAIN Mem(id).voters :
            ~ENABLED (/\ IsUnvote(id, v)
                      /\ ~(result' = Returned(Mem(id)) /\ _data' = _data))

\* C5 witness: a voter whose vote was revoked before has no entry, and the memory has
\* been returned as stored
C5_Witness ==
    \E i \in DOMAIN _data :
        /\ \E v \in Voters : <<_data[i].id, v>> \in cast /\ v \notin DOMAIN _data[i].voters
        /\ DOMAIN _data[i].voters # {}
        /\ result = Returned(_data[i])

\* C6. Anonymous cooldown: the first anonymous vote on a stored memory succeeds and
\* stamps the memory with its call time; a second anonymous vote fails with
\* rate-limited and leaves the storage unchanged when its clock reading is less than
\* 60 seconds after that stamp, and succeeds when it is 60 seconds or more after it,
\* votes then holding both adjustments.
C6_AnonCooldown ==
    \A id \in IdArgs : Stored(id) =>
        \A a \in Anonymous, dir \in Directions, n \in NArgs : n >= 1 =>
            ~ENABLED (/\ IsVote(id, dir, a, n)
                      /\ ~(IF Mem(id).last_anon_vote_at = NoneTs
                           THEN /\ result' = Returned(MemNext(id))
                                /\ MemNext(id).votes = Mem(id).votes + dir * n
                                /\ MemNext(id).last_anon_vote_at = isoformat(clock)
                           ELSE IF clock' - fromisoformat(Mem(id).last_anon_vote_at) < 60
                           THEN Rejected("rate-limited")
                           ELSE /\ result' = Returned(MemNext(id))
                                /\ MemNext(id).votes = Mem(id).votes + dir * n))

\* C6 witness: two anonymous votes of +2, the second 60 seconds after the first, have
\* both been counted
C6_Witness ==
    \E i \in DOMAIN _data :
        /\ _data[i].id \notin selfVoted
        /\ DOMAIN _data[i].voters = {}
        /\ _data[i].votes = 5
        /\ fromisoformat(_data[i].last_anon_vote_at) >= 60
        /\ result = Returned(_data[i])

\* C7. Anonymous votes are counted but never recorded per voter: a successful
\* anonymous vote changes votes by exactly direction * n, sets last_anon_vote_at to
\* the call time and leaves the voters map unchanged; an unvote step, for any voter
\* id, subtracts only a value recorded in voters, so the part of votes that is not
\* in voters (anonymous adjustments included) stays as it was.
C7_AnonCountedNotRecorded ==
    \A id \in IdArgs : Stored(id) =>
        /\ \A a \in Anonymous, dir \in Directions, n \in NArgs :
              ~ENABLED (/\ IsVote(id, dir, a, n)
                        /\ result'.err = "ok"
                        /\ ~(/\ MemNext(id).votes = Mem(id).votes + dir * n
                             /\ MemNext(id).last_anon_vote_at = isoformat(clock)
                             /\ MemNext(id).voters = Mem(id).voters))
        /\ \A v \in VoterArgs :
              ~ENABLED (/\ IsUnvote(id, v)
                        /\ ~(/\ MemNext(id).votes - SumVoters(MemNext(id).voters)
                                  = Mem(id).votes - SumVoters(Mem(id).voters)
                             /\ MemNext(id).last_anon_vote_at = Mem(id).last_anon_vote_at))

\* C7 witness: after an anonymous +2 and the unvote of the creator's vote, the
\* anonymous adjustment is still counted
C7_Witness ==
    \E i \in DOMAIN _data :
        /\ _data[i].id \in selfVoted
        /\ DOMAIN _data[i].voters = {}
        /\ _data[i].last_anon_vote_at # NoneTs
        /\ _data[i].votes = 2
        /\ result = Returned(_data[i])

\* C8 (as amended). Not-found: when the id has no active memory (never created, or
\* removed), upvote and downvote with n >= 1, unvote, and update with an absent or
\* non-blank content fail with not-found; upvote and downvote with n < 1 fail with
\* invalid-input; update with a blank content fails with not-found or invalid-input;
\* remove does not fail, it returns false. All of them leave storage unchanged.
C8_NotFound ==
    \A id \in IdArgs : ~Stored(id) =>
        /\ \A v \in VoterArgs, dir \in Directions, n \in NArgs :
              ~ENABLED (/\ IsVote(id, dir, v, n)
                        /\ ~Rejected(IF n >= 1 THEN "not-found" ELSE "invalid-input"))
        /\ \A v \in VoterArgs :
              ~ENABLED (IsUnvote(id, v) /\ ~Rejected("not-found"))
        /\ \A a \in UpdateArgs :
              ~ENABLED (/\ update_memory("c1", id, a.content, a.tags)
                        /\ ~Rejected("not-found")
                        /\ ~(/\ a.content # NoContent
                             /\ Blank(a.content)
                             /\ Rejected("invalid-input")))
        /\ ~ENABLED (/\ remove_memory("c1", id)
                     /\ ~(result'.err = "ok" /\ result'.flag = FALSE /\ _data' = _data))

\* C8 witness: a call on the id of a removed memory has failed with not-found
C8_Witness ==
    /\ result.err = "not-found"
    /\ removed # {}
    /\ \A id \in removed : ~Stored(id)

\* C8 as stated: upvote, downvote, unvote, update and remove on an id without an
\* active memory fail with not-found for every choice of the other arguments
C8_EveryCallNotFound ==
    \A id \in IdArgs : ~Stored(id) =>
        /\ \A v \in VoterArgs, dir \in Directions, n \in NArgs :
              ~ENABLED (IsVote(id, dir, v, n) /\ ~Rejected("not-found"))
        /\ \A v \in VoterArgs :
              ~ENABLED (IsUnvote(id, v) /\ ~Rejected("not-found"))
        /\ \A a \in UpdateArgs :
              ~ENABLED (update_memory("c1", id, a.content, a.tags) /\ ~Rejected("not-found"))
        /\ ~ENABLED (remove_memory("c1", id) /\ ~Rejected("not-found"))

\* C9. Invalid input is rejected before any mutation: create with empty or
\* whitespace-only content, upvote/downvote with n < 1, and list with an order_by
\* other than votes or created_at each fail with invalid-input and leave the stored
\* memories, every field of each, as they were.
C9_InvalidInput ==
    /\ \A a \in CreateArgs, v \in VoterArgs :
          Blank(a.content) =>
              ~ENABLED (/\ create_memory("c1", a.content, a.creator, a.tags, v)
                        /\ ~Rejected("invalid-input"))
    /\ \A id \in IdArgs, v \in VoterArgs, dir \in Directions, n \in NArgs :
          n < 1 => ~ENABLED (IsVote(id, dir, v, n) /\ ~Rejected("invalid-input"))
    /\ \A a \in ListArgs :
          a.order_by \notin {"votes", "created_at"} =>
              ~ENABLED (/\ list_memories("c1", a.order_by, a.limit, a.tags)
                        /\ ~Rejected("invalid-input"))

\* C9 witness: a call has been rejected as invalid while a memory is stored
C9_Witness ==
    /\ result.err = "invalid-input"
    /\ _data # <<>>

\* C10. Removal is terminal: once remove(id) has returned true, no later state holds
\* an active memory with that id, whatever the interleaving of the callers' reads
\* and writes.
C10_RemovalIsTerminal == \A id \in removed : ~Stored(id)

\* the ids of the memories in a list_memories result
ListedIds(list) == {list[i].id : i \in DOMAIN list}

\* C11. remove(id) returns true if and only if a memory with that id was stored
\* just before the call; after it get_memory(id) is absent and list_memories does
\* not contain the id, every other stored memory is as before; remove of an id that
\* is not stored returns false and changes nothing.
C11_Remove ==
    \A id \in IdArgs :
        ~ENABLED (/\ remove_memory("c1", id)
                  /\ ~(/\ result'.err = "ok"
                       /\ result'.flag = Stored(id)
                       /\ AdapterGet(_data', id) = NoMem
                       /\ id \notin ListedIds(ListOutcome(_data', "votes", NoLimit, NoTags))
                       /\ Ids(_data') = Ids(_data) \ {id}
                       /\ \A other \in Ids(_data') : MemNext(other) = Mem(other)
                       /\ ~Stored(id) => _data' = _data))

\* C11 witness: remove has returned true for a memory that had been voted on, and
\* the memory is gone
C11_Witness ==
    /\ result.err = "ok"
    /\ result.flag = TRUE
    /\ removed # {}
    /\ \A id \in removed : ~Stored(id)
    /\ \E id \in removed, v \in Voters : <<id, v>> \in cast

\* C12. Lost update: a caller's pending adapter write stores exactly the object the
\* caller read and mutated, whatever another caller has written in between, and the
\* call returns success; so when two callers vote on one memory with distinct voter
\* ids and both read before either writes, the memory stored after both writes
\* holds the second writer's entry and vote only.
C12_LostUpdate ==
    \A c \in Callers : pc[c] = "save" =>
        ~ENABLED (/\ save_return(c)
                  /\ ~(/\ result' = Returned(local[c])
                       /\ MemNext(local[c].id) = local[c]
                       /\ Len(_data') = Len(_data) + (IF Stored(local[c].id) THEN 0 ELSE 1)))

\* C12 witness: after the creation and two successful votes by v1 and v2 (three
\* adapter writes, no unvote, no remove) the memory holds one voter entry and
\* votes counts that one vote only
C12_Witness ==
    \E i \in DOMAIN _data :
        /\ writes = 3
        /\ removed = {}
        /\ _data[i].id \notin selfVoted
        /\ {<<_data[i].id, "v1">>, <<_data[i].id, "v2">>} \subseteq cast
        /\ Cardinality(DOMAIN _data[i].voters) = 1
        /\ _data[i].last_anon_vote_at = NoneTs
        /\ _data[i].votes = 1 + SumVoters(_data[i].voters)
        /\ result = Returned(_data[i])

TargetTextNext == IF path' = 0 THEN <<>> ELSE inodes'[path']

\* C13. File-backend atomic replace: in every state the target path names no file
\* or a file whose text is one complete document that was passed to _write; every
\* file a reader has open is such a complete document and no read has failed to
\* parse; a step of _read, of _write before the rename, or a crash inside _write
\* leaves the target's text as it was, and the rename makes it the writer's document.
C13_AtomicReplace ==
    /\ path # 0 => (IsDocument(TargetText) /\ json_load(TargetText) \in passed)
    /\ \A p \in Procs :
          /\ fresult[p].err # "decode-error"
          /\ frame[p].fh # 0 => IsDocument(inodes[frame[p].fh])
          /\ ~ENABLED (/\ crash(p) \/ (Step(p) /\ fpc[p] # "replace")
                       /\ TargetTextNext # TargetText)
          /\ ~ENABLED (/\ _write_replace(p)
                       /\ TargetTextNext # json_dump(frame[p].data))

\* C13 witness: a writer has crashed leaving a partly written temporary file, and a
\* reader has since read a memory from the complete document at the target path
C13_Witness ==
    /\ path # 0
    /\ \E p \in Procs : fpc[p] = "crashed"
    /\ \E i \in DOMAIN inodes : inodes[i] # <<>> /\ ~IsDocument(inodes[i])
    /\ \E p \in Procs : fresult[p].err = "ok" /\ fresult[p].mems # <<>>

\* C14. File-backend last-writer-wins at document granularity: a writer that has
\* composed its document is never held back and never fails: its rename can always
\* run, makes the target exactly the writer's document, whatever another process
\* has renamed into place since the writer read, and the call reports success; no
\* adapter call ever reports an error.
C14_LastWriterWins ==
    \A p \in Procs :
        /\ fresult[p].err \in {"none", "ok"}
        /\ fpc[p] = "replace" =>
              /\ ENABLED _write_replace(p)
              /\ ~ENABLED (/\ _write_replace(p)
                           /\ ~(/\ IsDocument(TargetTextNext)
                                /\ json_load(TargetTextNext) = frame[p].data
                                /\ fresult'[p].err = "ok"))

\* C14 witness: two saves of memories with different ids have both read the empty
\* document, both have returned without error, and the document holds one of the
\* two memories only
C14_Witness ==
    /\ calls = 2
    /\ \A p \in Procs : fpc[p] = "idle" /\ fresult[p].err = "ok"
    /\ \E d1 \in passed, d2 \in passed : DocIds(d1) = {1} /\ DocIds(d2) = {2}
    /\ path # 0
    /\ Cardinality(DocIds(json_load(TargetText))) = 1

\* the locks process p holds
Held(p) == {l \in flocks : l[2] = p}

\* the locks of p are the ones its position in _read or _write accounts for: a shared
\* lock on the file it has open between flock and unlock in _read, an exclusive lock
\* on its own temporary file, which is not the target and which no other process has
\* open or locked, while it writes the text; none anywhere else
LockDiscipline(p) ==
    /\ fpc[p] \in {"load", "unlock_sh"} => Held(p) = {<<frame[p].fh, p, "SH">>}
    /\ fpc[p] = "dump" =>
          /\ Held(p) = {<<frame[p].tmp, p, "EX">>}
          /\ frame[p].tmp # path
          /\ \A q \in Procs \ {p} :
                /\ frame[q].fh # frame[p].tmp
                /\ frame[q].tmp # frame[p].tmp
                /\ \A l \in Held(q) : l[1] # frame[p].tmp
    /\ fpc[p] \notin {"load", "unlock_sh", "dump"} => Held(p) = {}

\* C15. No operation blocks indefinitely: under fair scheduling every started adapter
\* call eventually returns, raises or dies; a running call can always take its next
\* step (no deadlock, no waiting for a lock); no lock is held between _read's return
\* and _write's locking, the shared lock is released before _read returns, and the
\* exclusive lock is only ever on the writer's own fresh temporary file.
C15_NoBlocking ==
    /\ [](\A p \in Procs : LockDiscipline(p) /\ (Busy(p) => ENABLED Step(p)))
    /\ \A p \in Procs : Busy(p) ~> ~Busy(p)

\* C15 witness: while one process holds the shared lock on the target file inside
\* _read, the other holds the exclusive lock on its temporary file inside _write
C15_Witness ==
    /\ path # 0
    /\ \E p \in Procs, q \in Procs :
          /\ fpc[p] = "load" /\ frame[p].fh = path /\ <<path, p, "SH">> \in flocks
          /\ fpc[q] = "dump" /\ <<frame[q].tmp, q, "EX">> \in flocks
          /\ frame[q].todo # <<>>

\* C16. Volatile backend isolation: the object the adapter keeps for an id shares no
\* part with the object the caller holds, its value is the value of the object last
\* passed to save, whatever the caller has done since to the objects it passed or
\* was handed, and a get returns an object of that value.
C16_Isolation ==
    \A id \in HeapIds :
        slots[id] # 0 =>
            /\ Deref(heap, slots[id]) = given[id]
            /\ Cells(heap, slots[id]) \cap Cells(heap, obj) = {}
            /\ ~ENABLED (/\ InMemory_get(id)
                         /\ Deref(heap', obj') # given[id])

\* C16 witness: the caller holds an object of a stored id, handed out by the adapter
\* or passed to it, whose votes, tags and voters all differ from what was saved
C16_Witness ==
    /\ obj # 0
    /\ slots[heap[obj].id] # 0
    /\ Deref(heap, obj).votes # given[heap[obj].id].votes
    /\ Deref(heap, obj).tags # given[heap[obj].id].tags
    /\ Deref(heap, obj).voters # given[heap[obj].id].voters
    /\ \A id \in HeapIds : slots[id] # 0

\* the sort key of memory m is not below that of memory n
KeyAtLeast(order_by, m, n) ==
    IF order_by = "votes" THEN m.votes >= n.votes
    ELSE \/ m.created_at[1] > n.created_at[1]
         \/ (m.created_at[1] = n.created_at[1] /\ m.created_at[2] >= n.created_at[2])

\* memory m passes the tags argument of list
Qualifies(m, tags) ==
    \/ tags = NoTags
    \/ tags = <<>>
    \/ {tags[i] : i \in DOMAIN tags} \cap {m.tags[j] : j \in DOMAIN m.tags} # {}

\* the stored memories that pass the tags argument
Qualifying(tags) == {_data[i] : i \in {j \in DOMAIN _data : Qualifies(_data[j], tags)}}

\* a list of memories is in non-increasing order of the key
Ranked(order_by, list) ==
    \A i \in DOMAIN list : \A j \in DOMAIN list :
        i < j => KeyAtLeast(order_by, list[i], list[j])

\* what the last call returned is what list_memories returns for some arguments
ListedBy(a) ==
    result = [NoCall EXCEPT !.err = "ok",
                            !.list = ListOutcome(_data, a.order_by, a.limit, a.tags)]

\* C17. Ranking: a list call with a valid order_by returns its memories in
\* non-increasing order of the chosen key, and without a limit it returns each
\* qualifying stored memory exactly once.
C17_Ranking ==
    /\ result # NoCall => \E a \in SortArgs : ListedBy(a) /\ Ranked(a.order_by, result.list)
    /\ \A a \in SortArgs :
          LET out == ListOutcome(_data, a.order_by, a.limit, a.tags)
          IN  /\ Ranked(a.order_by, out)
              /\ a.limit = NoLimit =>
                    /\ Len(out) = Cardinality(Qualifying(a.tags))
                    /\ \A m \in Qualifying(a.tags) :
                          Cardinality({i \in DOMAIN out : out[i] = m}) = 1

\* C17 witness: memories stored with votes 3, 1, 5 were listed as 5, 3, 1
C17_Witness ==
    /\ Len(_data) = 3
    /\ <<_data[1].votes, _data[2].votes, _data[3].votes>> = <<3, 1, 5>>
    /\ result.err = "ok"
    /\ Len(result.list) = 3
    /\ <<result.list[1].votes, result.list[2].votes, result.list[3].votes>> = <<5, 3, 1>>

\* the first n elements of seq, all of it when it has fewer
FirstN(seq, n) == [i \in 1 .. (IF n < Len(seq) THEN n ELSE Len(seq)) |-> seq[i]]

\* C18. Limit: with limit L >= 0 a list call returns the first min(L, k) elements
\* of what the same call without a limit returns (k memories, filtered and sorted);
\* a limit above k returns all k, and so does an absent limit.
C18_Limit ==
    \A a \in SortArgs :
        LET full == ListOutcome(_data, a.order_by, NoLimit, a.tags)
            out  == ListOutcome(_data, a.order_by, a.limit, a.tags)
            k    == Cardinality(Qualifying(a.tags))
        IN  /\ Len(full) = k
            /\ a.limit = NoLimit => out = full
            /\ a.limit # NoLimit =>
                  /\ out = FirstN(full, a.limit[1])
                  /\ Len(out) = IF a.limit[1] < k THEN a.limit[1] ELSE k
            /\ ListedBy(a) => result.list = FirstN(full, Len(result.list))

\* C18 witness: three memories are stored, the second with the most votes, and a
\* call with limit 2 and no tag filter has returned the second and the first
C18_Witness ==
    /\ Len(_data) = 3
    /\ result.err = "ok"
    /\ Len(result.list) = 2
    /\ result.list[1] = _data[2]
    /\ result.list[2] = _data[1]
    /\ _data[1].tags = <<>>
    /\ _data[3].votes = _data[1].votes

\* the ids of the memories of a list
IdsOf(list) == {list[i].id : i \in DOMAIN list}

\* the ids of the stored memories that carry at least one of the tags
Tagged(tags) ==
    {_data[i].id : i \in {j \in DOMAIN _data :
                             \E t \in DOMAIN tags, u \in DOMAIN _data[j].tags :
                                 tags[t] = _data[j].tags[u]}}

\* C19. Tag filter: without a limit, a list call with a non-empty tags argument
\* returns exactly the stored memories that carry at least one of the requested
\* tags, and with tags absent or empty it returns every stored memory.
C19_TagFilter ==
    \A a \in SortArgs :
        a.limit = NoLimit =>
            LET wanted == IF a.tags = NoTags \/ a.tags = <<>> THEN Ids(_data)
                          ELSE Tagged(a.tags)
            IN  /\ IdsOf(ListOutcome(_data, a.order_by, a.limit, a.tags)) = wanted
                /\ ListedBy(a) => IdsOf(result.list) = wanted

\* C19 witness: of three stored memories the list has returned the two that carry
\* one of two requested tags each, and not the untagged one
C19_Witness ==
    /\ Len(_data) = 3
    /\ result.err = "ok"
    /\ Len(result.list) = 2
    /\ \E i \in DOMAIN _data : _data[i].tags = <<>>
    /\ \E i \in 1 .. 2, j \in 1 .. 2 :
          /\ result.list[i].tags = <<"rs">>
          /\ result.list[j].tags = <<"go", "py">>

\* the keys of a dict
Keys(d) == {d[i][1] : i \in DOMAIN d}

\* a dict with exactly the keys id, content and tags, each once
IsProjection(item) == Len(item) = 3 /\ Keys(item) = {"id", "content", "tags"}

\* C20. Projection: every item of a get_memories response has exactly the fields
\* id, content and tags, there is one item for each stored memory, carrying that
\* memory's id, content and tags, and the response has a voter_id field exactly
\* when the caller supplied none (None or the empty string).
C20_Projection ==
    /\ result # NoCall =>
          LET items == DictGet(result.dict, "memories", None)
          IN  /\ result.err = "ok"
              /\ Keys(result.dict) \subseteq {"memories", "voter_id"}
              /\ Len(items) = Len(_data)
              /\ \A i \in DOMAIN items : IsProjection(items[i])
              /\ \A k \in DOMAIN _data : \E i \in DOMAIN items :
                    /\ DictGet(items[i], "id", None) = _data[k].id
                    /\ DictGet(items[i], "content", None) = _data[k].content
                    /\ DictGet(items[i], "tags", None) = _data[k].tags
              /\ "voter_id" \in Keys(result.dict) =>
                    DictGet(result.dict, "voter_id", None) \in NewVoterIds
    /\ \A voter_id \in VoterArgs, uuid \in NewVoterIds :
          LET out == GetMemoriesOutcome(_data, voter_id, uuid, [i \in DOMAIN _data |-> i])
          IN  /\ "voter_id" \in Keys(out) <=> voter_id \in Anonymous
              /\ \A i \in DOMAIN _data : IsProjection(DictGet(out, "memories", None)[i])

\* C20 witness: a call without a voter id returned three items, each with the three
\* fields, in an order that is not the stored one, and a generated voter_id
C20_Witness ==
    /\ Len(_data) = 3
    /\ result.err = "ok"
    /\ "voter_id" \in Keys(result.dict)
    /\ LET items == DictGet(result.dict, "memories", None)
       IN  /\ Len(items) = 3
           /\ \A i \in 1 .. 3 : IsProjection(items[i])
           /\ <<DictGet(items[1], "id", None), DictGet(items[2], "id", None),
                DictGet(items[3], "id", None)>> = <<3, 1, 2>>

\* the ids of the items of a get_memories response, in the order of the response
ItemIds(response) ==
    LET items == DictGet(response, "memories", <<>>)
    IN  [i \in DOMAIN items |-> DictGet(items[i], "id", None)]

\* a sequence that holds every element of the set exactly once
IsPermutationOf(seq, set) ==
    /\ Len(seq) = Cardinality(set)
    /\ {seq[i] : i \in DOMAIN seq} = set

\* C21. Read-only operations: the id list of a get_memories response is a
\* permutation of the stored ids, and get_memories, list, get_memory and
\* create_voter_id leave the stored memories unchanged in every field.
C21_ReadOnly ==
    /\ [](result.dict # <<>> => IsPermutationOf(ItemIds(result.dict), Ids(_data)))
    /\ [][_data' = _data]_vars

\* C21 witness: three memories are stored and get_memories, called with a voter id,
\* has returned them in the order 2, 3, 1
C21_Witness ==
    /\ Len(_data) = 3
    /\ result.err = "ok"
    /\ Keys(result.dict) = {"memories"}
    /\ ItemIds(result.dict) = <<2, 3, 1>>

\* C22. Serialization round-trip: Memory.from_dict(m.to_dict()) equals m in every
\* field, and VoteRecord.from_dict(r.to_dict()) equals r for each of its records.
C22_RoundTrip ==
    LET m == local["c1"]
    IN  /\ from_dict(to_dict(m)) = m
        /\ \A v \in DOMAIN m.voters :
              VoteRecord_from_dict(VoteRecord_to_dict(m.voters[v])) = m.voters[v]
        /\ result.ret # NoMem => result.ret = m
        /\ \A f \in {"id", "content", "votes", "created_at", "last_updated", "creator",
                     "tags", "voters", "last_anon_vote_at"} :
              from_dict(to_dict(m))[f] = m[f]

\* C22 witness: a memory without tags, creator and anonymous vote, with a downvote of
\* 2 and an upvote of 3 among its voters and a negative score, has come back
\* from the round trip
C22_Witness ==
    /\ result.err = "ok"
    /\ result.ret = local["c1"]
    /\ result.ret.tags = <<>>
    /\ result.ret.creator = None
    /\ result.ret.last_anon_vote_at = NoneTs
    /\ result.ret.votes < 0
    /\ DOMAIN result.ret.voters = Voters
    /\ result.ret.voters["v1"].value = 0 - 2
    /\ result.ret.voters["v2"].value = 3

\* the memories a Store instance reads over each persistent backend
JsonView == JsonFile_list_all(JsonDoc)

SqliteView(c) == Sqlite_list_all(Db, c)

\* a vote by voter v on memory id, in either direction, fails with duplicate-vote
\* when it is made on the memories of view
VoteIsDuplicate(view, id, v) ==
    \A d \in Directions :
        VoteOutcome(view, id, d, v, 1, clock, clock).err = "duplicate-vote"

\* C23. No caching in the Store: every instance on a backend, constructed already or
\* only afterwards, reads what the other instances read; a memory an operation has
\* just returned is what every instance gets for its id; and a vote that one
\* instance sees recorded for voter v makes a vote by v through any instance fail
\* with duplicate-vote.
C23_NoCaching ==
    \A a \in open : \A b \in Callers :
        /\ SqliteView(b) = SqliteView(a)
        /\ qresult.ret # NoMem => AdapterGet(SqliteView(b), qresult.ret.id) = qresult.ret
        /\ jresult.ret # NoMem => AdapterGet(JsonView, jresult.ret.id) = jresult.ret
        /\ \A id \in IdArgs : \A v \in Voters :
              /\ v \in DOMAIN AdapterGet(SqliteView(a), id).voters =>
                    VoteIsDuplicate(SqliteView(b), id, v)
              /\ v \in DOMAIN AdapterGet(JsonView, id).voters =>
                    VoteIsDuplicate(JsonView, id, v)

\* C23 witness: the only write so far was made through instance c1, and instance c2
\* has just had a vote refused as a duplicate over both persistent backends
C23_Witness ==
    /\ open = Callers
    /\ caller = "c2"
    /\ writer = "c1"
    /\ writes = 1
    /\ jresult.err = "duplicate-vote"
    /\ qresult.err = "duplicate-vote"

\* a list of memories as a set
AsSet(list) == {list[i] : i \in DOMAIN list}

\* C24. Interchangeable backends: after every step of a sequential run of Store
\* calls with the same arguments, generated ids and clock readings, the Stores over
\* InMemoryAdapter, JsonFileAdapter and SqliteAdapter have returned the same result
\* or error and hold the same set of memories.
C24_SameBehaviour ==
    /\ jresult = result
    /\ qresult = result
    /\ AsSet(JsonView) = AsSet(AdapterListAll(_data))
    /\ \A c \in Callers : AsSet(SqliteView(c)) = AsSet(AdapterListAll(_data))

\* C24 witness: two memories are stored, one of them voted on and tagged, and the
\* three Stores have all just refused an anonymous vote as rate-limited
C24_Witness ==
    /\ Len(_data) = 2
    /\ Len(rows) = 2
    /\ Len(JsonDoc) = 2
    /\ result.err = "rate-limited"
    /\ jresult.err = "rate-limited"
    /\ qresult.err = "rate-limited"
    /\ \E i \in DOMAIN _data : _data[i].votes # 1 /\ _data[i].tags # <<>>
\* C25. RPC loop robustness: no line of input makes cmd_serve end with an
\* exception, and every line read that is not blank has produced exactly one
\* response, so that the responses printed are as many as the non-blank lines read.
C25_LoopNeverRaises ==
    /\ spc # "raised"
    /\ Len(stdout) = nonempty

\* C26. Storage faults propagate without retry: when the adapter raised a fault
\* during a Store call (from its read, or from its save), the call failed with that
\* same fault and the stored memories are what they were before the call; no Store
\* call invokes save more than once.
C26_FaultsPropagate ==
    /\ [](saves <= 1 /\ (afault # None => result = StorageFault(afault)))
    /\ [][afault' # None => _data' = _data]_vars

\* C26 witness: with a memory stored, the save of a Store call has just raised
\* OSError: save was invoked once and the call failed with OSError
C26_Witness ==
    /\ _data # <<>>
    /\ afault = "OSError"
    /\ result = StorageFault("OSError")
    /\ saves = 1

\* update_memory arguments: both fields supplied, one of them, none, a blank content
UpdateCases ==
    UpdateArgs \cup { [content |-> <<" ", "b">>, tags |-> NoTags],
                      [content |-> NoContent,    tags |-> <<"rs">>] }

\* C27. update(id, content?, tags?) on a stored memory with a content that is
\* absent or not blank succeeds and returns the stored memory: its id, votes, voters,
\* created_at, creator and last_anon_vote_at are as before, content and tags are
\* replaced where supplied and kept where not, and last_updated is the reading of the
\* clock, not earlier than before. A blank content on a stored memory fails with
\* invalid-input, an id that is not stored fails with not-found (with invalid-input
\* or not-found when the content is blank as well), and a failed update leaves storage unchanged.
C27_Update ==
    \A id \in IdArgs : \A a \in UpdateCases :
        ~ENABLED (/\ update_memory("c1", id, a.content, a.tags)
                  /\ LET blank == a.content # NoContent /\ ContentEmpty(a.content)
                     IN ~(/\ Stored(id) /\ ~blank =>
                                /\ result'.err = "ok"
                                /\ result'.ret = MemNext(id)
                                /\ Ids(_data') = Ids(_data)
                                /\ MemNext(id).id = id
                                /\ MemNext(id).votes = Mem(id).votes
                                /\ MemNext(id).voters = Mem(id).voters
                                /\ MemNext(id).created_at = Mem(id).created_at
                                /\ MemNext(id).creator = Mem(id).creator
                                /\ MemNext(id).last_anon_vote_at = Mem(id).last_anon_vote_at
                                /\ MemNext(id).content =
                                      IF a.content = NoContent THEN Mem(id).content ELSE a.content
                                /\ MemNext(id).tags =
                                      IF a.tags = NoTags THEN Mem(id).tags ELSE a.tags
                                /\ MemNext(id).last_updated = isoformat(clock)
                                /\ ~StrLess(MemNext(id).last_updated, Mem(id).last_updated)
                          /\ Stored(id) /\ blank =>
                                result'.err = "invalid-input" /\ _data' = _data
                          /\ ~Stored(id) /\ ~blank =>
                                result'.err = "not-found" /\ _data' = _data
                          /\ ~Stored(id) /\ blank =>
                                result'.err \in {"invalid-input", "not-found"} /\ _data' = _data))

\* C27 witness: a memory created by voter v1 and voted on has been given a new
\* content and new tags at a later time, and still has its votes and its voters
C27_Witness ==
    /\ result.err = "ok"
    /\ Stored(1)
    /\ result.ret = Mem(1)
    /\ Mem(1).content = <<" ", "b">>
    /\ Mem(1).tags = <<"py">>
    /\ Mem(1).votes # 1
    /\ "v1" \in DOMAIN Mem(1).voters
    /\ Mem(1).last_updated # Mem(1).created_at

\* a memory before and after a step: created_at is kept and last_updated does not
\* go back; when the step has changed its votes or its voters (a vote, or an unvote
\* that removed a record, was applied) last_updated is the clock reading of the
\* call, and otherwise the memory is as it was
TimestampsKept(b, a) ==
    /\ a.created_at = b.created_at
    /\ ~StrLess(a.last_updated, b.last_updated)
    /\ IF a.votes # b.votes \/ DOMAIN a.voters # DOMAIN b.voters
       THEN a.last_updated = isoformat(clock)
       ELSE a = b

\* C28. Timestamps, in the InMemoryAdapter and in the rows of the SQLite table: no
\* step changes the created_at of a stored memory or moves its last_updated back;
\* every successful upvote or downvote, and every unvote that removes a record,
\* sets last_updated to the clock reading of the call; failed calls and unvotes
\* without a record change nothing; and last_updated is never earlier than created_at.
C28_Timestamps ==
    /\ [](/\ \A i \in DOMAIN _data : ~StrLess(_data[i].last_updated, _data[i].created_at)
          /\ \A i \in DOMAIN rows : ~StrLess(rows[i][5], rows[i][4]))
    /\ [][/\ result'.err \notin {"ok", "none"} => _data' = _data /\ rows' = rows
          /\ \A i \in DOMAIN _data : \A j \in DOMAIN _data' :
                _data[i].id = _data'[j].id => TimestampsKept(_data[i], _data'[j])
          /\ \A i \in DOMAIN rows : \A j \in DOMAIN rows' :
                rows[i][1] = rows'[j][1] =>
                    TimestampsKept(_row_to_memory(rows[i]), _row_to_memory(rows'[j]))]_vars

\* C28 witness: a memory created at one instant has been voted on at a later one:
\* the call returned it with last_updated at the clock reading, created_at as at
\* creation, and the InMemoryAdapter and the SQLite table hold it so
C28_Witness ==
    /\ clock > 0
    /\ result.err = "ok"
    /\ result.ret # NoMem
    /\ result.ret.created_at = isoformat(0)
    /\ result.ret.last_updated = isoformat(clock)
    /\ result.ret.votes # 1
    /\ AdapterGet(_data, result.ret.id) = result.ret
    /\ \E i \in DOMAIN rows : _row_to_memory(rows[i]) = result.ret

DataTable == [i \in DOMAIN _data |-> <<_data[i].id, _data[i]>>]

RowTable == [i \in DOMAIN rows |-> <<rows[i][1], rows[i]>>]

\* no key occurs twice in a table, and ids are not reused
UniqueKeys(table) ==
    /\ \A i \in DOMAIN table : table[i][1] < nextId
    /\ \A i, j \in DOMAIN table : table[i][1] = table[j][1] => i = j

\* what one Store call op, which ended with res, has done to a table; stored is the
\* value under which the adapter holds the memory that the call returned
Frame(op, res, before, after, stored) ==
    LET unchanged(keep) ==
            \A i \in DOMAIN before :
                before[i][1] \in keep => \E j \in DOMAIN after : after[j] = before[i]
    IN  CASE op.name = "create" /\ res.err = "ok" ->
                /\ res.ret.id \notin DocIds(before)
                /\ res.ret.id = nextId
                /\ DocIds(after) = DocIds(before) \cup {res.ret.id}
                /\ Len(after) = Len(before) + 1
                /\ \E j \in DOMAIN after : after[j] = <<res.ret.id, stored>>
                /\ unchanged(DocIds(before))
          [] op.name \in {"vote", "unvote"} /\ res.err = "ok" ->
                /\ res.ret.id = op.id
                /\ \E j \in DOMAIN after : after[j] = <<op.id, stored>>
                /\ DocIds(after) = DocIds(before)
                /\ Len(after) = Len(before)
                /\ unchanged(DocIds(before) \ {op.id})
          [] op.name = "remove" ->
                /\ DocIds(after) = DocIds(before) \ {op.id}
                /\ res.flag = (op.id \in DocIds(before))
                /\ unchanged(DocIds(before) \ {op.id})
          [] OTHER -> after = before

\* C30. Identity and frame, in sequential use and over each adapter: every stored
\* memory is keyed by its own id; a successful create adds exactly one memory, under
\* an id that no memory was stored under so far, and changes no other; upvote,
\* downvote and unvote on id A return a memory with id A, keep the set of stored ids
\* and leave every memory B # A as it was; remove(A) removes A and nothing else;
\* every other call changes nothing.
C30_IdentityFrame ==
    /\ [](/\ UniqueKeys(DataTable) /\ UniqueKeys(JsonDoc) /\ UniqueKeys(RowTable)
          /\ \A i \in DOMAIN JsonDoc : JsonDoc[i][1] = DictGet(JsonDoc[i][2], "id", 0)
          /\ \A i \in DOMAIN rows : rows[i][1] = _row_to_memory(rows[i]).id)
    /\ [][clock' = clock /\ open' = open =>
            /\ Frame(called', result', DataTable, DataTable', result'.ret)
            /\ Frame(called', jresult', JsonDoc, JsonDoc', to_dict(jresult'.ret))
            /\ Frame(called', qresult', RowTable, RowTable', _memory_to_params(qresult'.ret))]_vars

\* C30 witness: with two memories stored, the second has just been voted on: the
\* call returned the memory with id 2, and memory 1 is still as it was created
C30_Witness ==
    /\ called.name = "vote"
    /\ called.id = 2
    /\ result.err = "ok"
    /\ result.ret.id = 2
    /\ Ids(_data) = {1, 2}
    /\ DocIds(JsonDoc) = {1, 2}
    /\ DocIds(RowTable) = {1, 2}
    /\ AdapterGet(_data, 1).votes = 1
    /\ AdapterGet(_data, 1).last_updated = AdapterGet(_data, 1).created_at
    /\ \E i \in DOMAIN JsonDoc : JsonDoc[i] = <<1, to_dict(AdapterGet(_data, 1))>>
    /\ \E i \in DOMAIN rows : rows[i] = _memory_to_params(AdapterGet(_data, 1))

\* votes minus the sum of the recorded values: what the votes of a memory hold
\* beyond its voters map
Surplus(mem) == mem.votes - SumVoters(mem.voters)

\* C31. Conservation in delta form: votes - (sum of the values in voters) of a
\* stored memory is the same after every successful identified upvote or downvote
\* and after every unvote, grows by direction * n with a successful anonymous vote,
\* and is 1 for the memory that create returns without a voter_id and 0 for the one
\* it returns with a voter_id.
C31_SurplusDelta ==
    /\ \A id \in IdArgs : \A d \in Directions : \A n \in NArgs :
          /\ \A v \in Voters :
                ~ENABLED (/\ IsVote(id, d, v, n)
                          /\ result'.err = "ok"
                          /\ Surplus(MemNext(id)) # Surplus(Mem(id)))
          /\ \A v \in Anonymous :
                ~ENABLED (/\ IsVote(id, d, v, n)
                          /\ result'.err = "ok"
                          /\ Surplus(MemNext(id)) # Surplus(Mem(id)) + d * n)
    /\ \A id \in IdArgs : \A v \in VoterArgs :
          ~ENABLED (/\ unvote_memory("c1", id, v)
                    /\ result'.err = "ok"
                    /\ Surplus(MemNext(id)) # Surplus(Mem(id)))
    /\ \A a \in CreateArgs : \A v \in VoterArgs :
          ~ENABLED (/\ create_memory("c1", a.content, a.creator, a.tags, v)
                    /\ result'.err = "ok"
                    /\ ~(/\ Surplus(result'.ret) = IF v \in Voters THEN 0 ELSE 1
                         /\ MemNext(result'.ret.id) = result'.ret))

\* C31 witness: a memory created by voter v1 took an anonymous downvote of 2 and
\* then an upvote of 2 by v2, which has just returned: its votes exceed the sum of
\* its voters' values by the anonymous -2
C31_Witness ==
    /\ Stored(1)
    /\ result.err = "ok"
    /\ result.ret = Mem(1)
    /\ DOMAIN Mem(1).voters = {"v1", "v2"}
    /\ Mem(1).voters["v2"].value = 2
    /\ Mem(1).last_anon_vote_at # NoneTs
    /\ Mem(1).last_updated # Mem(1).last_anon_vote_at
    /\ Surplus(Mem(1)) = 0 - 2

\* the memory was created without a voter_id and carries no anonymous vote
PlainlyCreated(mem) == mem.id \notin selfVoted /\ mem.last_anon_vote_at = NoneTs

\* votes = 1 + the sum of the voters' values
Conserved(mem) == mem.votes = 1 + SumVoters(mem.voters)

\* C32. Conservation survives races: with calls split into an adapter read and a
\* later adapter write and interleaved in every order, each stored memory that was
\* created without a voter_id and carries no anonymous vote has votes = 1 + the sum
\* of its stored voters' values, and so has each object a caller is about to write;
\* a pending write leaves exactly the writer's voters and votes, so the entries it
\* overwrites leave voters and votes together and a voter recorded by two racing
\* votes is counted once.
C32_RaceConservation ==
    /\ \A i \in DOMAIN _data : PlainlyCreated(_data[i]) => Conserved(_data[i])
    /\ \A c \in Callers :
          pc[c] = "save" /\ PlainlyCreated(local[c]) =>
              /\ Conserved(local[c])
              /\ ~ENABLED (/\ save_return(c)
                           /\ ~(/\ MemNext(local[c].id).voters = local[c].voters
                                /\ MemNext(local[c].id).votes = local[c].votes
                                /\ Conserved(MemNext(local[c].id))
                                /\ \A i \in DOMAIN _data :
                                      _data[i].id # local[c].id => _data'[i] = _data[i]))

\* C32 witness: two callers read memory 1 before either voted; c1 has written its
\* vote by v1, and c2 is about to write another vote by v1 with a different value
C32_Witness ==
    /\ Stored(1)
    /\ PlainlyCreated(Mem(1))
    /\ writes = 2
    /\ pc["c1"] = "idle"
    /\ pc["c2"] = "save"
    /\ local["c2"].id = 1
    /\ PlainlyCreated(local["c2"])
    /\ DOMAIN Mem(1).voters = {"v1"}
    /\ DOMAIN local["c2"].voters = {"v1"}
    /\ Mem(1).voters["v1"].value # local["c2"].voters["v1"].value
    /\ result = Returned(Mem(1))

\* C33. Re-vote after unvote: while voter v has no entry in the voters of the stored
\* memory m, as after unvote(m, v), every upvote or downvote by v on m with a
\* magnitude n >= 1 succeeds, returns the stored memory and records direction * n
\* under v, whatever vote of v was recorded before; and a vote fails with
\* duplicate-vote only when its voter has an entry in the memory's voters.
C33_RevoteAfterUnvote ==
    \A id \in IdArgs : \A v \in Voters : \A dir \in Directions : \A n \in NArgs :
        /\ (Stored(id) /\ v \notin DOMAIN Mem(id).voters /\ n >= 1) =>
              ~ENABLED (/\ IsVote(id, dir, v, n)
                        /\ ~(/\ result' = Returned(MemNext(id))
                             /\ v \in DOMAIN MemNext(id).voters
                             /\ MemNext(id).voters[v].value = dir * n
                             /\ MemNext(id).votes = Mem(id).votes + dir * n))
        /\ ~(Stored(id) /\ v \in DOMAIN Mem(id).voters) =>
              ~ENABLED (IsVote(id, dir, v, n) /\ result'.err = "duplicate-vote")

\* C33 witness: v1 created memory 1 with its creation vote of +1, unvoted, and has
\* now downvoted by 2: the memory records -2 under v1, and nobody else ever voted
C33_Witness ==
    /\ Stored(1)
    /\ 1 \in selfVoted
    /\ cast = {<<1, "v1">>}
    /\ writes = 3
    /\ Values(Mem(1)) = [v \in {"v1"} |-> 0 - 2]
    /\ Mem(1).votes = 0 - 2
    /\ Mem(1).last_anon_vote_at = NoneTs
    /\ result = Returned(Mem(1))

\* C34. Empty voter id is treated as absent: create_memory with voter_id = ""
\* returns and stores a memory with votes 1 and no voters entry; an upvote or
\* downvote with voter_id = "" never fails as a duplicate, is rejected as
\* rate-limited inside the cooldown of the last anonymous vote, and when it succeeds
\* moves votes by direction * n, stamps last_anon_vote_at and leaves voters as it
\* was; get_memories with voter_id = "" returns a newly generated voter id and
\* changes nothing; and no stored voters map has "" (or None) as a key.
C34_EmptyVoterIsAbsent ==
    /\ \A i \in DOMAIN _data : DOMAIN _data[i].voters \subseteq Voters
    /\ \A a \in CreateArgs :
          ~ENABLED (/\ create_memory("c1", a.content, a.creator, a.tags, "")
                    /\ result'.err = "ok"
                    /\ ~(/\ result'.ret.votes = 1
                         /\ DOMAIN result'.ret.voters = {}
                         /\ MemNext(result'.ret.id) = result'.ret
                         /\ selfVoted' = selfVoted))
    /\ \A id \in IdArgs : \A dir \in Directions : \A n \in NArgs :
          ~ENABLED (/\ IsVote(id, dir, "", n)
                    /\ ~(/\ result'.err # "duplicate-vote"
                         /\ cast' = cast
                         /\ IF result'.err = "ok"
                            THEN /\ MemNext(id).voters = Mem(id).voters
                                 /\ MemNext(id).votes = Mem(id).votes + dir * n
                                 /\ MemNext(id).last_anon_vote_at = isoformat(clock)
                                 /\ Mem(id).last_anon_vote_at # NoneTs =>
                                       clock' - fromisoformat(Mem(id).last_anon_vote_at) >= 60
                            ELSE _data' = _data
                         /\ (/\ Stored(id)
                             /\ n >= 1
                             /\ Mem(id).last_anon_vote_at # NoneTs
                             /\ clock' - fromisoformat(Mem(id).last_anon_vote_at) < 60)
                            => result'.err = "rate-limited"))
    /\ ~ENABLED (/\ get_memories("c1", "")
                 /\ ~(/\ result'.err = "ok"
                      /\ Len(result'.dict) = 2
                      /\ result'.dict[2][1] = "voter_id"
                      /\ result'.dict[2][2] \in NewVoterIds
                      /\ _data' = _data))

\* C34 witness: a memory created without a creation vote has taken an anonymous
\* upvote of 2 and a second anonymous vote on it has just been refused inside the
\* cooldown; it has no voters entry (voter_id None and "" lead to this same state)
C34_Witness ==
    /\ Stored(1)
    /\ 1 \notin selfVoted
    /\ cast = {}
    /\ DOMAIN Mem(1).voters = {}
    /\ Mem(1).votes = 3
    /\ Mem(1).last_anon_vote_at # NoneTs
    /\ result = Raised("rate-limited")

\* the call over each of the three adapters failed with err and wrote nothing
FailedEverywhere(err) ==
    /\ result' = Raised(err)
    /\ jresult' = Raised(err)
    /\ qresult' = Raised(err)
    /\ _data' = _data
    /\ inodes' = inodes
    /\ rows' = rows

\* C35. Error precedence in vote: an upvote or downvote with n < 1 fails with
\* invalid-input whether or not its id is stored and whether or not its voter
\* already has a recorded vote on the memory; one with n >= 1 on an id that is not
\* stored fails with not-found for every voter id, absent or given; and
\* duplicate-vote and rate-limited are raised only for a stored memory and a
\* magnitude n >= 1. In each case nothing is written.
C35_ErrorPrecedence ==
    [][(clock' = clock /\ open' = open /\ called'.name = "vote") =>
          /\ called'.n < 1 => FailedEverywhere("invalid-input")
          /\ (called'.n >= 1 /\ called'.id \notin Ids(_data)) => FailedEverywhere("not-found")
          /\ result'.err \in {"duplicate-vote", "rate-limited"} =>
                called'.n >= 1 /\ called'.id \in Ids(_data)]_vars

\* C35 witness: voter v2 has a recorded vote on memory 1 and has just voted on it
\* again with n = 0: the call failed with invalid-input, not with duplicate-vote
C35_Witness ==
    /\ called.name = "vote"
    /\ called.n = 0
    /\ called.id = 1
    /\ called.voter_id = "v2"
    /\ 1 \in Ids(_data)
    /\ "v2" \in DOMAIN AdapterGet(_data, 1).voters
    /\ result = Raised("invalid-input")
    /\ jresult = Raised("invalid-input")
    /\ qresult = Raised("invalid-input")

\* a vote with n = 0 on an id that is not stored has failed with invalid-input
C35_UnknownIdReached ==
    /\ called.name = "vote"
    /\ called.n = 0
    /\ called.id \notin Ids(_data)
    /\ result = Raised("invalid-input")

\* the memories of a list that have id
WithId(list, id) == {i \in DOMAIN list : list[i].id = id}

\* a get or list_all that follows save(m), with no other save in between, on one
\* adapter: get(m.id) returned a memory equal to m, list_all one memory with m's id
ReadsBack(res, m) ==
    /\ (called.name = "get" /\ called.id = m.id) => res = Returned(m)
    /\ called.name = "list_all" => Cardinality(WithId(res.list, m.id)) = 1

\* the same with created_at left out of the comparison
ReadsBackButCreatedAt(res, m) ==
    /\ (called.name = "get" /\ called.id = m.id) =>
          /\ res.err = "ok"
          /\ [res.ret EXCEPT !.created_at = m.created_at] = m
    /\ called.name = "list_all" => Cardinality(WithId(res.list, m.id)) = 1

\* C36 as stated. Full upsert (read-your-writes): on each of the three adapters,
\* after save(m) has returned, get(m.id) returns a memory equal to m in every field,
\* created_at included, whatever was stored under m.id before, and list_all holds
\* exactly one memory with that id.
C36_FullUpsert ==
    local["c1"] # NoMem =>
        /\ ReadsBack(result, local["c1"])
        /\ ReadsBack(jresult, local["c1"])
        /\ ReadsBack(qresult, local["c1"])

\* C36 (as amended). Upsert: after save(m) has returned, get(m.id) on the
\* InMemoryAdapter and on the JsonFileAdapter returns a memory equal to m in every
\* field, whatever was stored under m.id before; on the SqliteAdapter it returns a
\* memory equal to m in every field but created_at, which is that of the row stored
\* under m.id before the save and m's own when there was none; list_all of each
\* adapter holds exactly one memory with that id.
C36_UpsertButCreatedAt ==
    /\ [](local["c1"] # NoMem =>
              /\ ReadsBack(result, local["c1"])
              /\ ReadsBack(jresult, local["c1"])
              /\ ReadsBackButCreatedAt(qresult, local["c1"]))
    /\ [][called'.name = "save" =>
              \A i \in DOMAIN rows' :
                  rows'[i][1] = called'.id =>
                      rows'[i][4] = IF \E k \in DOMAIN rows : rows[k][1] = called'.id
                                    THEN rows[CHOOSE k \in DOMAIN rows :
                                                  rows[k][1] = called'.id][4]
                                    ELSE local'["c1"].created_at]_vars

\* C36 witness: a memory was saved over one with another created_at and get has read
\* it back: the InMemoryAdapter and the JsonFileAdapter return the memory saved, the
\* SqliteAdapter returns it with the created_at of the first save
C36_Witness ==
    /\ called.name = "get"
    /\ called.id = local["c1"].id
    /\ writes >= 2
    /\ result = Returned(local["c1"])
    /\ jresult = Returned(local["c1"])
    /\ qresult.ret.created_at # local["c1"].created_at
    /\ [qresult.ret EXCEPT !.created_at = local["c1"].created_at] = local["c1"]

\* no stored memory's last_anon_vote_at is changed by the step
StampsKept ==
    \A id \in IdArgs : Stored(id) => MemNext(id).last_anon_vote_at = Mem(id).last_anon_vote_at

\* C37. Scope of the anonymous cooldown: an identified upvote or downvote and an
\* unvote are never rejected as rate-limited and leave every last_anon_vote_at as it
\* was, inside the 60 seconds after an anonymous vote too; an anonymous vote with
\* n >= 1 on a stored memory succeeds when that memory has no stamp or one at least
\* 60 seconds old and is rate-limited otherwise, whatever the stamp of any other
\* memory, and it changes no other memory; and a rate-limited call changes nothing,
\* so the stamp stays that of the last successful anonymous vote.
C37_CooldownScope ==
    \A id \in IdArgs :
        /\ \A v \in Voters, dir \in Directions, n \in NArgs :
              ~ENABLED (/\ IsVote(id, dir, v, n)
                        /\ ~(result'.err # "rate-limited" /\ StampsKept))
        /\ \A v \in VoterArgs :
              ~ENABLED (/\ IsUnvote(id, v)
                        /\ ~(result'.err # "rate-limited" /\ StampsKept))
        /\ \A a \in Anonymous, dir \in Directions, n \in NArgs :
              ~ENABLED (/\ IsVote(id, dir, a, n)
                        /\ ~(/\ \A other \in IdArgs \ {id} :
                                   Stored(other) => MemNext(other) = Mem(other)
                             /\ result'.err = "rate-limited" => _data' = _data
                             /\ (Stored(id) /\ n >= 1) =>
                                   IF \/ Mem(id).last_anon_vote_at = NoneTs
                                      \/ clock' - fromisoformat(Mem(id).last_anon_vote_at) >= 60
                                   THEN /\ result'.err = "ok"
                                        /\ MemNext(id).last_anon_vote_at = isoformat(clock)
                                   ELSE result'.err = "rate-limited"))

\* C37 witness: memory 1 took an anonymous vote less than 60 seconds ago, v1 has
\* voted on it since, and an anonymous vote on memory 2 has just succeeded: both
\* memories carry a stamp inside the cooldown, and memory 1's stamp is still that of
\* its anonymous vote
C37_Witness ==
    /\ Stored(1) /\ Stored(2)
    /\ clock < 60
    /\ Mem(1).last_anon_vote_at # NoneTs
    /\ DOMAIN Mem(1).voters = {"v1"}
    /\ Mem(1).voters["v1"].timestamp = Mem(1).last_updated
    /\ Mem(2).last_anon_vote_at # NoneTs
    /\ Mem(2).last_updated = Mem(2).last_anon_vote_at
    /\ result = Returned(Mem(2))
    /\ writes = 3

====
